---- MODULE Spec2Model ----
(***************************************************************************)
(* Model of the ralph-api store (sessions, memories, checkpoints, session  *)
(* lineage) and of the fold / spawn protocols built on it, of the SSE       *)
(* subscriber list (api/sse.py) and of the transcript watcher               *)
(* (services/transcript_watcher.py), of memory search and curation         *)
(* (services/memory_service.py, curation_service.py) and of the MCP         *)
(* server's SessionDB (ralph-mcp/src/db).                                   *)
(*                                                                         *)
(* Conventions                                                             *)
(*  - ids are the integers 1, 2, ... in order of creation (uuid4 values    *)
(*    are fresh; only freshness is used); 0 stands for "no id" (None).     *)
(*  - created_at is read from the clock `now`, which advances on every     *)
(*    INSERT: two rows are never flushed in the same microsecond, because  *)
(*    a commit round trip separates them.                                  *)
(*  - a max_tokens argument of 0 stands for both None and 0: both are      *)
(*    falsy in `max_tokens or settings.DEFAULT_MAX_TOKENS`.                *)
(*  - the watcher's time is counted in tenths of a second and advances by   *)
(*    one throttle delay at a time; two writes never leave the same mtime.  *)
(*  - a handler of the watcher runs as one step: the events the observer    *)
(*    thread produces meanwhile join the tail of the queue either way.      *)
(*    Where stop() matters the handler is followed await by await           *)
(*    (handling): it suspends in db.execute and in db.commit.               *)
(*  - a database call that raises has written nothing.                      *)
(*  - CURRENT_TIMESTAMP of the SessionDB is counted in seconds.             *)
(*  - asyncio.Queue.put on a queue without maxsize never waits, so a        *)
(*    broadcast is one step; a put can still raise (failing).               *)
(***************************************************************************)
EXTENDS Integers, Sequences, FiniteSets, TLC

\* ---------------------------------------------------------------- bounds
MaxSessions == 3
MaxCheckpoints == 2
MaxMemories == 2
MaxTrackedSessions == 2
MaxCreatedSessions == 1
MaxStoredMemories == 1
MaxSubscribers == 2
MaxBroadcasts == 3
MaxPings == 1
MaxEvents == 3
MaxTicks == 2
MaxLines == 2
MaxSearched == 3
MaxRanked == 2
MaxCurated == 10
MaxSeconds == 2

\* ------------------------------------------------------ program constants
DEFAULT_MAX_TOKENS == 200000
\* transcript_service.py
MAX_CONTEXT_TOKENS == 200000
BYTES_PER_TOKEN == 6
SYSTEM_OVERHEAD_TOKENS == 2000
TRANSCRIPT_TAIL_SIZE == 10240
\* transcript_watcher.py; times are counted in tenths of a second:
\* _throttle_delay = 0.5 s, and _pending_updates keeps entries younger than 10 s
throttle_delay == 5
pending_keep == 100
\* sse.py; the keepalive's time is counted in tens of seconds:
\* wait_for(queue.get(), timeout=30)
keepalive_timeout == 3

\* ------------------------------------------------------------------ state
VARIABLES
    sessions,         \* table sessions: id -> row
    memories,         \* table memories: id -> row
    memory_seq,       \* number of memory rows ever inserted
    checkpoints,      \* table checkpoints: id -> row
    lineage,          \* table session_lineage: sequence of rows
    now,              \* the clock behind datetime.utcnow
    res,              \* the last call: operation, arguments, outcome
    ck_call,          \* a create_checkpoint call in flight: its position and locals
    ck_views,         \* history: what that call could have read since it began
    ck_origin,        \* history: checkpoint id -> the session fields when it was created
    clients,          \* sse._clients: the list of subscriber queues
    queues,           \* subscriber -> the content of its asyncio.Queue
    sub_pc,           \* subscriber -> position of its sse_events / event_generator
    emitted,          \* subscriber -> the events its generator has yielded
    appended,         \* history: subscriber -> the messages broadcasts put on its queue
    bcast_seq,        \* number of broadcasts so far (the payload's timestamp)
    idle,             \* subscriber -> the time since its generator last yielded,
                      \* in tens of seconds
    bc_call,          \* a broadcast followed statement by statement: its
                      \* position in the loop over _clients and its locals
    files,            \* the transcript files on disk: path -> mtime, tokens
    fs_clock,         \* the filesystem's modification clock
    event_queue,      \* TranscriptWatcher._event_queue
    event_seq,        \* number of file changes so far, each an event when the
                      \* observer runs
    pending_updates,  \* TranscriptWatcher._pending_updates: path -> time, 0 for no entry
    wnow,             \* datetime.now() as read by the watcher; it starts further
                      \* from the epoch than any delay the watcher compares with
    cached_projects,  \* TranscriptWatcher.cached_projects, in insertion order
    handled,          \* history: the events _handle_file_event was called with,
                      \* and whether the call stored the transcript's tokens
    running,          \* TranscriptWatcher._running: the application is up
    decided,          \* history: the last two calls of should_fold, with their
                      \* results, the latest last
    memory_rows,      \* the rows of the memories table of the session that is
                      \* searched and curated, with the columns search and
                      \* curation read, in order of insertion
    mcp_sessions,     \* the mcp_sessions table of the MCP server's SessionDB
    mcp_clock,        \* CURRENT_TIMESTAMP of that database, in seconds
    handling          \* the call of _handle_file_event the processing task is
                      \* suspended in, at an await of the database

store_vars == <<sessions, memories, memory_seq, checkpoints, lineage, now>>
ck_vars == <<ck_call, ck_views, ck_origin>>
sse_vars == <<clients, queues, sub_pc, emitted, appended, bcast_seq, idle,
              bc_call>>
watcher_vars == <<files, fs_clock, event_queue, event_seq, pending_updates,
                  wnow, cached_projects, handled, running, handling>>
\* what the decision functions, search and curation, and the MCP server's
\* SessionDB work on
advice_vars == <<decided, memory_rows, mcp_sessions, mcp_clock>>

vars == <<sessions, memories, memory_seq, checkpoints, lineage, now, res,
          ck_call, ck_views, ck_origin, clients, queues, sub_pc, emitted,
          appended, bcast_seq, idle, bc_call, files, fs_clock, event_queue, event_seq,
          pending_updates, wnow, cached_projects, handled, running, decided,
          memory_rows, mcp_sessions, mcp_clock, handling>>

SessionIds == 1 .. MaxSessions
Subscribers == 1 .. MaxSubscribers
CheckpointIds == 1 .. MaxCheckpoints
MemoryIds == 1 .. MaxMemories

\* SessionStatus (models/session.py)
SessionStatus == {"active", "completed", "terminated"}

\* argument values
TokenArgs == {-1, 1, DEFAULT_MAX_TOKENS + 1}
MaxTokenArgs == {0, 1}
CompressedTokens == {0, 2}
UserTasks == {"task"}
HandoffReasons == {"context_critical"}

\* the empty dict and the metadata dicts the callers build, as sets of keys
EmptyDict == {}
FoldMetadata == {"compressed_summary", "decisions", "files", "errors",
                 "compression_ratio"}
SpawnMetadata == {"handoff_reason"}

\* the elements of a list
Range(seq) == {seq[i] : i \in DOMAIN seq}

Result(op, sid, arg, outcome, new_sid, new_cid, ret) ==
    [op |-> op, sid |-> sid, arg |-> arg, outcome |-> outcome,
     new_sid |-> new_sid, new_cid |-> new_cid, ret |-> ret]

\* no create_checkpoint call is in flight
NoCall == [pc |-> "idle", session_id |-> 0, session |-> <<>>, memory_ids |-> {}]

\* no broadcast is being followed statement by statement
NoBroadcast == [pc |-> "idle", i |-> 0, disconnected |-> {}, failing |-> {},
                ts |-> 0, at_begin |-> {}]

\* the processing task is not inside _handle_file_event
NoHandling == [pc |-> "idle"]

\* the transcript files of the model: A and B lie in the directory of project
\* "ralph", C in the directory of project "other", all under source "claude"
Paths == {"A", "B", "C"}
\* other entries of the directory of project "other": a directory, a file
\* that is no transcript, and the transcript of a sub-agent
OtherEntries == {"dir.jsonl", "notes.txt", "agent-1.jsonl"}
\* every path an event may name
EventPaths == Paths \cup OtherEntries
\* a path at which no file exists
NoFile == [exists |-> FALSE, mtime |-> 0, has_usage |-> FALSE, usage |-> 0,
           size |-> 0, readable |-> FALSE]

Init ==
    /\ sessions = <<>>
    /\ memories = <<>>
    /\ memory_seq = 0
    /\ checkpoints = <<>>
    /\ lineage = <<>>
    /\ now = 0
    /\ res = Result("init", 0, 0, "ok", 0, 0, <<>>)
    /\ ck_call = NoCall
    /\ ck_views = {}
    /\ ck_origin = <<>>
    /\ clients = <<>>
    /\ queues = [c \in Subscribers |-> <<>>]
    /\ sub_pc = [c \in Subscribers |-> "none"]
    /\ emitted = [c \in Subscribers |-> <<>>]
    /\ appended = [c \in Subscribers |-> <<>>]
    /\ bcast_seq = 0
    /\ idle = [c \in Subscribers |-> 0]
    /\ bc_call = NoBroadcast
    /\ files = [p \in Paths |-> NoFile]
    /\ fs_clock = 0
    /\ event_queue = <<>>
    /\ event_seq = 0
    /\ pending_updates = [p \in EventPaths |-> 0]
    /\ wnow = pending_keep
    /\ cached_projects = <<>>
    /\ handled = <<>>
    /\ handling = NoHandling
    /\ running = TRUE
    /\ decided = <<>>
    /\ memory_rows = <<>>
    /\ mcp_sessions = <<>>
    /\ mcp_clock = 0

\* ------------------------------------------------------------- Session
\* Session.context_usage_percent: int(current_tokens / max_tokens * 100),
\* 0 when max_tokens == 0; int() truncates towards zero.
context_usage_percent(s) ==
    IF s.max_tokens = 0 THEN 0
    ELSE IF s.current_tokens >= 0
         THEN (s.current_tokens * 100) \div s.max_tokens
         ELSE 0 - ((0 - s.current_tokens) * 100) \div s.max_tokens

NewSessionId == Len(sessions) + 1
NewCheckpointId == Len(checkpoints) + 1

\* select(Memory).where(Memory.session_id == session_id), as the set of ids
session_memory_ids(session_id) ==
    {m \in DOMAIN memories : memories[m].session_id = session_id}

\* the session fields a checkpoint stores
session_state(session) ==
    [task_description |-> session.task_description,
     current_tokens |-> session.current_tokens,
     max_tokens |-> session.max_tokens,
     status |-> session.status]

\* what create_checkpoint(session_id) would read if it read everything now
View(session_id) ==
    [state |-> session_state(sessions[session_id]),
     memory_ids |-> session_memory_ids(session_id)]

\* a call that runs while a create_checkpoint may be in flight: it leaves
\* that call's locals alone, and the state it produces is recorded as one the
\* in-flight call could have read
\* a checkpoint row that appears in a step was created from the session as it
\* was when the step began
OriginAfter ==
    [c \in DOMAIN checkpoints' |->
        IF c \in DOMAIN ck_origin THEN ck_origin[c]
        ELSE session_state(sessions[checkpoints'[c].session_id])]

Bystander ==
    /\ UNCHANGED ck_call
    /\ ck_views' = IF ck_call.pc = "idle" THEN {}
                   ELSE ck_views \cup {View(ck_call.session_id)'}
    /\ ck_origin' = OriginAfter
    /\ UNCHANGED <<sse_vars, watcher_vars, advice_vars>>

\* the row create_session inserts
create_session_row(task_description, max_tokens, created_at) ==
    [task_description |-> task_description,
     max_tokens |-> IF max_tokens /= 0 THEN max_tokens ELSE DEFAULT_MAX_TOKENS,
     current_tokens |-> 0,
     status |-> "active",
     created_at |-> created_at]

create_session(task_description, max_tokens) ==
    /\ Len(sessions) < MaxSessions
    /\ sessions' = Append(sessions,
                          create_session_row(task_description, max_tokens, now))
    /\ now' = now + 1
    /\ res' = Result("create_session", NewSessionId, max_tokens, "ok",
                     NewSessionId, 0, <<>>)
    /\ UNCHANGED <<memories, memory_seq, checkpoints, lineage>>
    /\ Bystander

\* get_session: db.get(Session, session_id), a read; the id found, 0 for None
get_session(session_id) ==
    /\ res' = Result("get_session", session_id, 0, "ok", 0, 0,
                     IF session_id \in DOMAIN sessions THEN session_id ELSE 0)
    /\ UNCHANGED <<sessions, memories, memory_seq, checkpoints, lineage, now>>
    /\ Bystander

\* an update that creates the session it does not find
update_tokens_or_create(session_id, tokens) ==
    /\ IF session_id \notin DOMAIN sessions
       THEN /\ Len(sessions) < MaxSessions
            /\ sessions' = Append(sessions,
                   [create_session_row("", 0, now) EXCEPT
                       !.current_tokens = tokens])
            /\ res' = Result("update_tokens", session_id, tokens, "ok",
                             0, 0, <<>>)
       ELSE /\ sessions' = [sessions EXCEPT ![session_id].current_tokens = tokens]
            /\ res' = Result("update_tokens", session_id, tokens, "ok",
                             0, 0, <<>>)
    /\ UNCHANGED <<memories, memory_seq, checkpoints, lineage, now>>
    /\ Bystander

update_tokens(session_id, tokens) ==
    /\ IF session_id \notin DOMAIN sessions
       THEN /\ res' = Result("update_tokens", session_id, tokens, "not_found",
                             0, 0, <<>>)
            /\ UNCHANGED sessions
       ELSE /\ sessions' = [sessions EXCEPT ![session_id].current_tokens = tokens]
            /\ res' = Result("update_tokens", session_id, tokens, "ok",
                             0, 0, <<>>)
    /\ UNCHANGED <<memories, memory_seq, checkpoints, lineage, now>>
    /\ Bystander

\* complete_session and terminate_session differ only in the status written
SetStatus(op, session_id, status) ==
    IF session_id \notin DOMAIN sessions
    THEN /\ res' = Result(op, session_id, 0, "not_found", 0, 0, <<>>)
         /\ UNCHANGED sessions
    ELSE /\ sessions' = [sessions EXCEPT ![session_id].status = status]
         /\ res' = Result(op, session_id, 0, "ok", 0, 0, <<>>)

complete_session(session_id) ==
    /\ SetStatus("complete_session", session_id, "completed")
    /\ UNCHANGED <<memories, memory_seq, checkpoints, lineage, now>>
    /\ Bystander

terminate_session(session_id) ==
    /\ SetStatus("terminate_session", session_id, "terminated")
    /\ UNCHANGED <<memories, memory_seq, checkpoints, lineage, now>>
    /\ Bystander

\* ------------------------------------------------------------- Memory
\* add_memory: INSERT into memories; the foreign key memories.session_id ->
\* sessions.id rejects a row for a session that does not exist
add_memory(session_id) ==
    /\ memory_seq < MaxMemories
    /\ IF session_id \notin DOMAIN sessions
       THEN /\ res' = Result("add_memory", session_id, 0, "error", 0, 0, <<>>)
            /\ UNCHANGED <<memories, memory_seq>>
       ELSE /\ memories' = memories @@ (memory_seq + 1 :> [session_id |-> session_id])
            /\ memory_seq' = memory_seq + 1
            /\ res' = Result("add_memory", session_id, memory_seq + 1, "ok",
                             0, 0, <<>>)
    /\ UNCHANGED <<sessions, checkpoints, lineage, now>>
    /\ Bystander

delete_memory(memory_id) ==
    /\ IF memory_id \notin DOMAIN memories
       THEN /\ res' = Result("delete_memory", 0, memory_id, "false", 0, 0, <<>>)
            /\ UNCHANGED memories
       ELSE /\ memories' = [m \in DOMAIN memories \ {memory_id} |-> memories[m]]
            /\ res' = Result("delete_memory", memories[memory_id].session_id,
                             memory_id, "ok", 0, 0, <<>>)
    /\ UNCHANGED <<sessions, memory_seq, checkpoints, lineage, now>>
    /\ Bystander

\* --------------------------------------------------------- Checkpoint
\* The row create_checkpoint inserts, from the session and the memory ids it
\* has read.  The caller's metadata is passed to the constructor as the
\* keyword `metadata`; the mapped column is extra_data (models/checkpoint.py
\* line 30), which is not set and so takes its default, the empty dict.
checkpoint_row(session_id, session, memory_ids, label, metadata, created_at) ==
    [session_id |-> session_id,
     label |-> label,
     state |-> session_state(session),
     context_usage |-> context_usage_percent(session),
     memories_snapshot |-> memory_ids,
     extra_data |-> EmptyDict,
     created_at |-> created_at]

create_checkpoint(session_id, label, metadata) ==
    /\ Len(checkpoints) < MaxCheckpoints
    /\ IF session_id \notin DOMAIN sessions
       THEN /\ res' = Result("create_checkpoint", session_id, 0, "not_found",
                             0, 0, <<>>)
            /\ UNCHANGED <<checkpoints, now>>
       ELSE /\ checkpoints' = Append(checkpoints,
                  checkpoint_row(session_id, sessions[session_id],
                                 session_memory_ids(session_id), label, metadata,
                                 now))
            /\ now' = now + 1
            /\ res' = Result("create_checkpoint", session_id, 0, "ok",
                             0, NewCheckpointId, <<>>)
    /\ UNCHANGED <<sessions, memories, memory_seq, lineage>>
    /\ Bystander

\* create_checkpoint as it runs beside other requests, each with its own
\* database session: every await is a point where they may commit.  Under
\* READ COMMITTED each statement sees the rows committed when it runs.
\* Step 1, db.get(Session, session_id): the session row is loaded.
ck_get_session(session_id) ==
    /\ ck_call.pc = "idle"
    /\ Len(checkpoints) < MaxCheckpoints
    /\ IF session_id \notin DOMAIN sessions
       THEN /\ res' = Result("create_checkpoint", session_id, 0, "not_found",
                             0, 0, <<>>)
            /\ UNCHANGED <<ck_call, ck_views>>
       ELSE /\ ck_call' = [pc |-> "select_memories",
                           session_id |-> session_id,
                           session |-> sessions[session_id],
                           memory_ids |-> {}]
            /\ ck_views' = {View(session_id)}
            /\ UNCHANGED res
    /\ UNCHANGED <<sessions, memories, memory_seq, checkpoints, lineage, now>>
    /\ UNCHANGED <<ck_origin, sse_vars, watcher_vars, advice_vars>>

\* Step 2, db.execute(select(Memory)...): the memory ids are read.
ck_select_memories ==
    /\ ck_call.pc = "select_memories"
    /\ ck_call' = [ck_call EXCEPT
                      !.pc = "commit",
                      !.memory_ids = session_memory_ids(ck_call.session_id)]
    /\ UNCHANGED <<sessions, memories, memory_seq, checkpoints, lineage, now,
                   res, ck_views>>
    /\ UNCHANGED <<ck_origin, sse_vars, watcher_vars, advice_vars>>

\* Step 3, db.add(checkpoint); db.commit(): the row is built from the session
\* object loaded in step 1 and the ids read in step 2.
ck_commit(label, metadata) ==
    /\ ck_call.pc = "commit"
    /\ checkpoints' = Append(checkpoints,
           checkpoint_row(ck_call.session_id, ck_call.session,
                          ck_call.memory_ids, label, metadata, now))
    /\ now' = now + 1
    /\ res' = Result("create_checkpoint", ck_call.session_id, 0, "ok",
                     0, NewCheckpointId, <<>>)
    /\ ck_call' = NoCall
    /\ ck_origin' = OriginAfter
    /\ UNCHANGED <<sessions, memories, memory_seq, lineage, ck_views>>
    /\ UNCHANGED <<sse_vars, watcher_vars, advice_vars>>

\* rows ordered by created_at ascending
RECURSIVE OrderAsc(_, _)
OrderAsc(rows, ids) ==
    IF ids = {} THEN <<>>
    ELSE LET c == CHOOSE x \in ids :
                    \A y \in ids : rows[x].created_at <= rows[y].created_at
         IN <<c>> \o OrderAsc(rows, ids \ {c})

\* order_by(created_at.desc()): the ids of the rows, newest first
RECURSIVE OrderDesc(_, _)
OrderDesc(rows, ids) ==
    IF ids = {} THEN <<>>
    ELSE LET c == CHOOSE x \in ids :
                    \A y \in ids : rows[y].created_at <= rows[x].created_at
         IN <<c>> \o OrderDesc(rows, ids \ {c})

\* list_checkpoints: the ids of the session's checkpoints, newest first
list_checkpoints(session_id) ==
    OrderDesc(checkpoints,
              {c \in DOMAIN checkpoints : checkpoints[c].session_id = session_id})

\* get_latest_checkpoint: ... order_by(created_at.desc()).limit(1), 0 for None
get_latest_checkpoint(session_id) ==
    LET l == list_checkpoints(session_id)
    IN IF l = <<>> THEN 0 ELSE l[1]

\* the state of the live session, in place of the state the checkpoint stored
restored_state_live(checkpoint) ==
    session_state(sessions[checkpoint.session_id])

\* restore_checkpoint, "state": checkpoint.state
restored_state(checkpoint) == checkpoint.state

\* every id of the snapshot, whether or not its memory still exists
restored_memories_all(checkpoint) == checkpoint.memories_snapshot

\* restore_checkpoint, select(Memory).where(Memory.id.in_(memory_ids)): the
\* ids of the rows found
restored_memories(checkpoint) ==
    {m \in DOMAIN memories : m \in checkpoint.memories_snapshot}

\* restore_checkpoint: a read; the returned dict is left in res.ret
restore_checkpoint(checkpoint_id) ==
    /\ IF checkpoint_id \notin DOMAIN checkpoints
       THEN res' = Result("restore_checkpoint", 0, checkpoint_id, "not_found",
                          0, 0, <<>>)
       ELSE LET checkpoint == checkpoints[checkpoint_id]
            IN res' = Result("restore_checkpoint", checkpoint.session_id,
                             checkpoint_id, "ok", 0, checkpoint_id,
                             [label |-> checkpoint.label,
                              state |-> restored_state(checkpoint),
                              context_usage |-> checkpoint.context_usage,
                              memories |-> restored_memories(checkpoint),
                              created_at |-> checkpoint.created_at])
    /\ UNCHANGED <<sessions, memories, memory_seq, checkpoints, lineage, now>>
    /\ Bystander

\* ---------------------------------------------------------------- Fold
\* the trajectory passed to execute_fold, and the summary compress extracts
\* from the LLM provider's answer to it
Trajectory == "trajectory"
CompressedSummary == "summary"

\* what is known of a call of execute_fold when it ends: the step that
\* raised, and the summary of the FoldResult ("" when none is returned)
FoldReturn(fault, summary) == [fault |-> fault, summary |-> summary]

\* execute_fold.  compress is a call to the LLM provider: it returns a
\* CompressResult, of which compressed_tokens is any count, or it raises.
\* Neither compress nor execute_fold catches what llm.complete raises.
\* fault names the step that raises: "compress", the final "commit", or "none".
execute_fold(session_id, compressed_tokens, fault) ==
    /\ Len(checkpoints) < MaxCheckpoints
    /\ IF session_id \notin DOMAIN sessions
       THEN /\ res' = Result("execute_fold", session_id, compressed_tokens,
                             "not_found", 0, 0, <<>>)
            /\ UNCHANGED <<sessions, checkpoints, now>>
       ELSE IF fault = "compress"
       THEN /\ res' = Result("execute_fold", session_id, compressed_tokens,
                             "error", 0, 0, FoldReturn(fault, ""))
            /\ UNCHANGED <<sessions, checkpoints, now>>
       ELSE /\ checkpoints' = Append(checkpoints,
                  checkpoint_row(session_id, sessions[session_id],
                                 session_memory_ids(session_id), "auto-fold",
                                 FoldMetadata, now))
            /\ now' = now + 1
            /\ IF fault = "commit"
               THEN /\ UNCHANGED sessions
                    /\ res' = Result("execute_fold", session_id,
                                     compressed_tokens, "error", 0,
                                     NewCheckpointId, FoldReturn(fault, ""))
               ELSE /\ sessions' = [sessions EXCEPT
                           ![session_id].current_tokens = compressed_tokens]
                    /\ res' = Result("execute_fold", session_id,
                                     compressed_tokens, "ok", 0,
                                     NewCheckpointId,
                                     FoldReturn(fault, CompressedSummary))
    /\ UNCHANGED <<memories, memory_seq, lineage>>
    /\ Bystander

\* ------------------------------------------------------ fold decision
\* context_usage is counted in hundredths: 60 stands for 0.60
Providers == {"anthropic", "openai", "mistral", "google", "glm"}

\* the usages tried: every threshold of every provider and the hundredth
\* below it, 0.76, and the ends of [0, 1]
Usages ==
    {0, 76, 100} \cup
    UNION {{t - 1, t} : t \in {50, 60, 65, 70, 75, 80, 85, 90, 95, 97}}

\* one entry of a provider's dict: threshold -> (urgency, reason, action)
ThresholdRow(threshold, urgency, reason, action) ==
    [threshold |-> threshold, urgency |-> urgency, reason |-> reason,
     action |-> action]

\* PROVIDER_THRESHOLDS; it has no entry for mistral
PROVIDER_THRESHOLDS ==
    [anthropic |->
        {ThresholdRow(60, "medium", "Consider milestone checkpoint", "checkpoint"),
         ThresholdRow(75, "high", "Safety checkpoint recommended", "checkpoint"),
         ThresholdRow(85, "high", "Fold/compress REQUIRED", "compress"),
         ThresholdRow(95, "critical", "MUST spawn new agent", "spawn")},
     glm |->
        {ThresholdRow(50, "medium", "Consider milestone checkpoint (GLM)", "checkpoint"),
         ThresholdRow(65, "high", "Safety checkpoint recommended (GLM)", "checkpoint"),
         ThresholdRow(75, "high", "Fold/compress REQUIRED (GLM)", "compress"),
         ThresholdRow(85, "critical", "MUST spawn new agent (GLM)", "spawn")},
     openai |->
        {ThresholdRow(60, "medium", "Consider milestone checkpoint", "checkpoint"),
         ThresholdRow(75, "high", "Safety checkpoint recommended", "checkpoint"),
         ThresholdRow(85, "high", "Fold/compress REQUIRED", "compress"),
         ThresholdRow(95, "critical", "MUST spawn new agent", "spawn")},
     google |->
        {ThresholdRow(70, "medium", "Consider milestone checkpoint (Gemini)", "checkpoint"),
         ThresholdRow(80, "high", "Safety checkpoint recommended (Gemini)", "checkpoint"),
         ThresholdRow(90, "high", "Fold/compress REQUIRED (Gemini)", "compress"),
         ThresholdRow(97, "critical", "MUST spawn new agent (Gemini)", "spawn")}]

\* thresholds that are those of anthropic whatever the provider
get_thresholds_of_anthropic(provider) == PROVIDER_THRESHOLDS["anthropic"]

\* get_thresholds_for_provider:
\* PROVIDER_THRESHOLDS.get(provider, PROVIDER_THRESHOLDS["anthropic"])
get_thresholds_for_provider(provider) ==
    IF provider \in DOMAIN PROVIDER_THRESHOLDS
    THEN PROVIDER_THRESHOLDS[provider]
    ELSE PROVIDER_THRESHOLDS["anthropic"]

\* sorted(thresholds.items(), reverse=True): the entries, highest threshold
\* first
RECURSIVE sorted_reverse(_)
sorted_reverse(items) ==
    IF items = {} THEN <<>>
    ELSE LET top == CHOOSE r \in items :
                        \A q \in items : q.threshold <= r.threshold
         IN <<top>> \o sorted_reverse(items \ {top})

\* a comparison turned round
usage_below(context_usage, threshold) == context_usage <= threshold

\* if context_usage >= threshold
usage_reaches(context_usage, threshold) == context_usage >= threshold

\* the loop of should_fold over the sorted entries, and the return after it
RECURSIVE first_reached(_, _, _)
first_reached(entries, context_usage, provider) ==
    IF entries = <<>>
    THEN [should_fold |-> FALSE, urgency |-> "low",
          reason |-> "Context usage acceptable",
          recommended_action |-> "continue",
          context_usage |-> context_usage, provider |-> provider]
    ELSE IF usage_reaches(context_usage, Head(entries).threshold)
    THEN [should_fold |-> TRUE, urgency |-> Head(entries).urgency,
          reason |-> Head(entries).reason,
          recommended_action |-> Head(entries).action,
          context_usage |-> context_usage, provider |-> provider]
    ELSE first_reached(Tail(entries), context_usage, provider)

\* the ShouldFoldResult of should_fold called with a provider
ShouldFoldResult(context_usage, provider) ==
    first_reached(sorted_reverse(get_thresholds_for_provider(provider)),
                  context_usage, provider)

\* should_fold: a pure function; the call and its result are recorded
should_fold(context_usage, provider) ==
    /\ \E result \in {ShouldFoldResult(context_usage, provider)} :
          /\ res' = Result("should_fold", 0, <<context_usage, provider>>, "ok",
                           0, 0, result)
          /\ decided' = IF decided = <<>> THEN <<result>>
                        ELSE <<decided[Len(decided)], result>>
    /\ UNCHANGED <<store_vars, ck_vars, sse_vars, watcher_vars, memory_rows,
                   mcp_sessions, mcp_clock>>

\* ----------------------------------------------------- spawn decision
\* argument values of should_spawn; recent_outputs <<>> stands for None and
\* for the empty list, which are both falsy
ProgressArgs == {79, 80, 89, 90}
SpawnUsages == {89, 90}
ErrorCounts == {5, 6}
Outputs == {"x", "y"}
RecentOutputs == UNION {[1 .. n -> Outputs] : n \in 0 .. 4}

\* recent_outputs[-3:]
last_three(recent_outputs) ==
    SubSeq(recent_outputs,
           IF Len(recent_outputs) > 3 THEN Len(recent_outputs) - 2 ELSE 1,
           Len(recent_outputs))

\* a ShouldSpawnResult; handoff_prompt keeps its default, None
SpawnAdvice(should, reason, preserve_context, estimated_progress) ==
    [should_spawn |-> should, reason |-> reason,
     preserve_context |-> preserve_context,
     estimated_progress |-> estimated_progress]

\* the ShouldSpawnResult of should_spawn
ShouldSpawnResult(context_usage, task_progress, recent_outputs, error_count) ==
    IF task_progress >= 90
    THEN SpawnAdvice(FALSE,
             "Task nearly complete (>=90%), finish in current session",
             <<>>, task_progress)
    ELSE IF context_usage >= 90 /\ task_progress < 80
    THEN SpawnAdvice(TRUE,
             "Context usage critical (>=90%), spawning subprocess",
             <<"decisions", "files", "errors">>, task_progress)
    ELSE IF /\ recent_outputs /= <<>>
            /\ Len(recent_outputs) >= 3
            /\ Cardinality(Range(last_three(recent_outputs))) = 1
    THEN SpawnAdvice(TRUE,
             "Loop detected (same output 3+ times), fresh context needed",
             <<"decisions", "files">>, task_progress)
    ELSE IF error_count > 5
    THEN SpawnAdvice(TRUE,
             "Too many consecutive errors (>5), resetting context",
             <<"errors", "decisions">>, task_progress)
    ELSE SpawnAdvice(FALSE,
             "Making steady progress, continue current session",
             <<>>, task_progress)

\* should_spawn: a pure function; the call and its result are recorded
should_spawn(context_usage, task_progress, recent_outputs, error_count) ==
    /\ res' = Result("should_spawn", 0,
                     [context_usage |-> context_usage,
                      task_progress |-> task_progress,
                      recent_outputs |-> recent_outputs,
                      error_count |-> error_count],
                     "ok", 0, 0,
                     ShouldSpawnResult(context_usage, task_progress,
                                       recent_outputs, error_count))
    /\ UNCHANGED <<store_vars, ck_vars, sse_vars, watcher_vars, advice_vars>>

\* ------------------------------------------------------ memory search
\* the words a memory's content or a query may hold; neither is part of the
\* other, so "kw in content" is membership
Words == {"alpha", "beta"}
Contents == SUBSET Words
Queries == {<<>>, <<"alpha">>, <<"beta">>, <<"alpha", "beta">>}
TopKs == {1, 2, 20}
MemoryPriority == {"high", "normal", "low"}
MemoryCategory == {"decision", "action", "error", "progress", "context", "other"}

\* a row of the memories table
MemoryRow(id, content, category, priority, access_count, created_at) ==
    [id |-> id, content |-> content, category |-> category,
     priority |-> priority, access_count |-> access_count,
     created_at |-> created_at]

\* the id and created_at of the next row: ids are fresh and two rows are
\* never inserted in the same microsecond
NewMemoryRowId ==
    IF memory_rows = <<>> THEN 1
    ELSE 1 + (CHOOSE n \in {memory_rows[i].id : i \in DOMAIN memory_rows} :
                 \A i \in DOMAIN memory_rows : memory_rows[i].id <= n)

\* what the new steps leave alone
MemoryOnly ==
    UNCHANGED <<store_vars, ck_vars, sse_vars, watcher_vars, decided,
                mcp_sessions, mcp_clock>>

\* add_memory for the session searched: a row is inserted.  access_count is
\* what Memory.touch has counted when the row is next looked at.
store_memory(content, category, priority, access_count) ==
    /\ memory_rows' = Append(memory_rows,
           MemoryRow(NewMemoryRowId, content, category, priority, access_count,
                     NewMemoryRowId))
    /\ res' = Result("store_memory", 0, NewMemoryRowId, "ok", 0, 0, <<>>)
    /\ MemoryOnly

\* the place of a label in CREATE TYPE memory_priority AS ENUM ('high',
\* 'normal', 'low'): PostgreSQL orders the values of an enum type by it
enum_position(priority) ==
    CASE priority = "high" -> 1 [] priority = "normal" -> 2 [] priority = "low" -> 3

\* row a comes before row b under
\* ORDER BY priority DESC, created_at DESC
before_priority_desc(a, b) ==
    \/ enum_position(a.priority) > enum_position(b.priority)
    \/ /\ a.priority = b.priority
       /\ a.created_at > b.created_at

\* the rows of a set in that order
RECURSIVE order_by_priority_desc(_)
order_by_priority_desc(rows) ==
    IF rows = {} THEN <<>>
    ELSE LET first == CHOOSE a \in rows :
                          \A b \in rows \ {a} : before_priority_desc(a, b)
         IN <<first>> \o order_by_priority_desc(rows \ {first})

\* LIMIT top_k
limit(rows, top_k) ==
    IF Len(rows) <= top_k THEN rows ELSE SubSeq(rows, 1, top_k)

\* calc_score: matches / len(keywords), kept as the two counts
calc_score(memory, keywords) ==
    [matches |-> Cardinality({i \in DOMAIN keywords :
                                 keywords[i] \in memory.content}),
     of |-> Len(keywords)]

\* a MemoryIndexItem
MemoryIndexItem(memory, score) ==
    [id |-> memory.id, category |-> memory.category,
     priority |-> memory.priority, score |-> score]

\* the list search_index returns
search_index_items(rows, keywords, top_k) ==
    IF keywords = <<>> THEN <<>>
    ELSE LET matching == {rows[i] : i \in
                             {j \in DOMAIN rows :
                                 \E k \in DOMAIN keywords :
                                     keywords[k] \in rows[j].content}}
             found == limit(order_by_priority_desc(matching), top_k)
         IN [i \in DOMAIN found |->
                MemoryIndexItem(found[i], calc_score(found[i], keywords))]

\* search_index: a read; the call and the list returned are recorded
search_index(query, top_k) ==
    /\ \E items \in {search_index_items(memory_rows, query, top_k)} :
           res' = Result("search_index", 0, [query |-> query, top_k |-> top_k],
                         "ok", 0, 0, items)
    /\ UNCHANGED memory_rows
    /\ MemoryOnly

\* ------------------------------------------------------ hybrid search
\* k of hybrid_search, the RRF constant
rrf_k == 60
\* scores are kept as whole numbers: a score times 10 * rrf_scale, where
\* rrf_scale is the least common multiple of k + 1 .. k + 4 and the weights
\* are counted in tenths
rrf_scale == 61 * 31 * 63 * 64
\* keyword_weight and vector_weight in tenths: the defaults, and equal weights
Weights == {<<3, 7>>, <<5, 5>>}
HybridTopKs == {1, 2}

\* the rankings a vector search may return for the rows: the nearest
\* top_k * 2 of the rows that carry an embedding, <<>> when there is no
\* embedding provider or the search raises
VectorRankings(rows, top_k) ==
    LET ids == {rows[i].id : i \in DOMAIN rows}
    IN {r \in UNION {[1 .. n -> ids] : n \in 0 .. Cardinality(ids)} :
           /\ Len(r) <= top_k * 2
           /\ \A i, j \in DOMAIN r : i /= j => r[i] /= r[j]}

\* the rank of an id in a ranking, 0 when it is not there
rank_in(ranking, id) ==
    IF \E i \in DOMAIN ranking : ranking[i] = id
    THEN CHOOSE i \in DOMAIN ranking : ranking[i] = id
    ELSE 0

\* weight * (1 / (k + rank)), nothing for an id the ranking does not hold
rrf_term(weight, rank) ==
    IF rank = 0 THEN 0 ELSE (weight * rrf_scale) \div (rrf_k + rank)

\* a score that takes the better of the two rankings only
rrf_best_of(keyword_term, vector_term) ==
    IF keyword_term >= vector_term THEN keyword_term ELSE vector_term

\* rrf_score += ... for each ranking that holds the id
rrf_score(keyword_term, vector_term) == keyword_term + vector_term

\* combined_scores
combined_scores(keyword_ids, vector_ids, weights) ==
    [id \in Range(keyword_ids) \cup Range(vector_ids) |->
        rrf_score(rrf_term(weights[1], rank_in(keyword_ids, id)),
                  rrf_term(weights[2], rank_in(vector_ids, id)))]

\* sorted(combined_scores.keys(), key=score, reverse=True): ids of one score
\* come in the order the set yields them, which is any
SortedIds(scores) ==
    {order \in [1 .. Cardinality(DOMAIN scores) -> DOMAIN scores] :
        /\ \A i, j \in DOMAIN order : i /= j => order[i] /= order[j]
        /\ \A i, j \in DOMAIN order :
               i < j => scores[order[i]] >= scores[order[j]]}

\* what a call tells of the memories it ranked: the two ranks of each, its
\* score and the weights
RankedEntries(keyword_ids, vector_ids, weights) ==
    LET scores == combined_scores(keyword_ids, vector_ids, weights)
    IN {[keyword_rank |-> rank_in(keyword_ids, id),
         vector_rank |-> rank_in(vector_ids, id),
         score |-> scores[id], weights |-> weights] : id \in DOMAIN scores}

\* hybrid_search.  The items of memories found by the vector search alone
\* are built from the row fetched by id.  seen is history: the entries of
\* this call and of the call of hybrid_search just before it.
hybrid_search(query, top_k, weights, vector_ids) ==
    /\ \E keyword_results \in {search_index_items(memory_rows, query, top_k * 2)} :
       \E keyword_ids \in {[i \in DOMAIN keyword_results |->
                               keyword_results[i].id]} :
       \E scores \in {combined_scores(keyword_ids, vector_ids, weights)} :
       \E order \in SortedIds(scores) :
       \E sorted_ids \in {limit(order, top_k)} :
       \E items \in {[i \in DOMAIN sorted_ids |->
                         MemoryIndexItem(
                             memory_rows[CHOOSE n \in DOMAIN memory_rows :
                                            memory_rows[n].id = sorted_ids[i]],
                             scores[sorted_ids[i]])]} :
       \E seen \in {RankedEntries(keyword_ids, vector_ids, weights)
                     \cup (IF res.op = "hybrid_search"
                           THEN RankedEntries(res.ret.keyword_ids,
                                    res.arg.vector_ids, res.arg.weights)
                           ELSE {})} :
           res' = Result("hybrid_search", 0,
                         [query |-> query, top_k |-> top_k,
                          weights |-> weights, vector_ids |-> vector_ids],
                         "ok", 0, 0,
                         [items |-> items, keyword_ids |-> keyword_ids,
                          seen |-> seen])
    /\ UNCHANGED memory_rows
    /\ MemoryOnly

\* ---------------------------------------------------------- curation
\* smart_curate leaves fewer memories than this alone
smart_curate_min == 10
\* the default of preserve_categories, and the categories smart_curate names
DefaultPreserved == {"decision", "error"}
\* keep_top, preserve_categories ({} for None and for the empty list, which
\* are both falsy) and target_reduction in tenths
KeepTops == {0, 9}
PreserveArgs == {{}, {"decision"}}
TargetReductions == {3}
\* the rows curated: decisions and memories of no special category
CuratedKinds == {[category |-> "decision", access_count |-> 0],
                 [category |-> "other", access_count |-> 0]}

\* row a comes before row b under ORDER BY created_at DESC
before_created_desc(a, b) == a.created_at > b.created_at

\* row a comes before row b under ORDER BY access_count ASC, created_at ASC
before_access_asc(a, b) ==
    \/ a.access_count < b.access_count
    \/ a.access_count = b.access_count /\ a.created_at < b.created_at

\* the score smart_curate gives a memory
curation_score(m) ==
    IF m.category \in DefaultPreserved THEN 1000
    ELSE m.access_count * 10 + (IF m.priority = "high" THEN 1 ELSE 0) * 50

\* scored.sort(key=score): stable, so rows of one score keep the order of
\* the query
before_scored(a, b) ==
    \/ curation_score(a) < curation_score(b)
    \/ curation_score(a) = curation_score(b) /\ before_access_asc(a, b)

\* the ids of the rows in the order of the query of curate_memories
RECURSIVE newest_first(_)
newest_first(rows) ==
    IF rows = {} THEN <<>>
    ELSE LET first == CHOOSE a \in rows :
                          \A b \in rows \ {a} : before_created_desc(a, b)
         IN <<first>> \o newest_first(rows \ {first})

\* the rows in the order smart_curate removes them
RECURSIVE lowest_score_first(_)
lowest_score_first(rows) ==
    IF rows = {} THEN <<>>
    ELSE LET first == CHOOSE a \in rows :
                          \A b \in rows \ {a} : before_scored(a, b)
         IN <<first>> \o lowest_score_first(rows \ {first})

\* list[n:]
drop(list, n) ==
    IF n >= Len(list) THEN <<>> ELSE SubSeq(list, n + 1, Len(list))

\* to_remove of curate_memories
curate_to_remove(rows, keep_top, preserve_categories) ==
    LET preserved == IF preserve_categories = {} THEN DefaultPreserved
                     ELSE preserve_categories
        memories_list == newest_first(Range(rows))
        protected == SelectSeq(memories_list,
                               LAMBDA m : m.category \in preserved)
        candidates == SelectSeq(memories_list,
                                LAMBDA m : m.category \notin preserved)
        candidates_to_keep == IF keep_top - Len(protected) > 0
                              THEN keep_top - Len(protected) ELSE 0
    IN IF Len(memories_list) <= keep_top THEN {}
       ELSE Range(drop(candidates, candidates_to_keep))

\* to_remove of smart_curate
smart_to_remove(rows, target_reduction) ==
    LET target_remove == (Len(rows) * target_reduction) \div 10
    IN IF Len(rows) < smart_curate_min THEN {}
       ELSE Range(limit(lowest_score_first(Range(rows)), target_remove))

\* db.delete for every memory of to_remove, and the commit
delete_rows(rows, to_remove) == SelectSeq(rows, LAMBDA m : m \notin to_remove)

curate_memories(keep_top, preserve_categories) ==
    /\ \E to_remove \in {curate_to_remove(memory_rows, keep_top,
                                          preserve_categories)} :
           /\ memory_rows' = delete_rows(memory_rows, to_remove)
           /\ res' = Result("curate_memories", 0,
                            [keep_top |-> keep_top,
                             preserve_categories |-> preserve_categories],
                            "ok", 0, 0,
                            [removed_count |-> Cardinality(to_remove),
                             remaining_count |->
                                 Len(memory_rows) - Cardinality(to_remove)])
    /\ MemoryOnly

smart_curate(target_reduction) ==
    /\ \E to_remove \in {smart_to_remove(memory_rows, target_reduction)} :
           /\ memory_rows' = delete_rows(memory_rows, to_remove)
           /\ res' = Result("smart_curate", 0,
                            [target_reduction |-> target_reduction],
                            "ok", 0, 0,
                            [removed_count |-> Cardinality(to_remove),
                             remaining_count |->
                                 Len(memory_rows) - Cardinality(to_remove)])
    /\ MemoryOnly

\* ------------------------------------------------------------- Lineage
\* lineage_row with the parent's id written to both columns
lineage_row_self_link(parent_session_id, child_session_id, handoff_reason, checkpoint_id, created_at) ==
    [parent_session_id |-> parent_session_id,
     child_session_id |-> parent_session_id,
     handoff_reason |-> handoff_reason,
     checkpoint_id |-> checkpoint_id,
     created_at |-> created_at]

\* a SessionLineage row
lineage_row(parent_session_id, child_session_id, handoff_reason, checkpoint_id, created_at) ==
    [parent_session_id |-> parent_session_id,
     child_session_id |-> child_session_id,
     handoff_reason |-> handoff_reason,
     checkpoint_id |-> checkpoint_id,
     created_at |-> created_at]

\* session_lineage.child_session_id is unique: the INSERT of a second row for
\* the same child fails
UniqueChild(child_session_id) ==
    \A i \in DOMAIN lineage : lineage[i].child_session_id /= child_session_id

\* the prompt _generate_handoff_prompt gets from the LLM provider
HandoffPrompt == "handoff"

\* spawn_child_row with the parent's max_tokens not passed on
spawn_child_row_default_max(parent, task_description, created_at) ==
    create_session_row(IF task_description /= "" THEN task_description
                       ELSE HandoffPrompt,
                       0, created_at)

\* the child execute_spawn creates:
\* create_session(db, task_description or handoff_prompt, parent.max_tokens)
spawn_child_row(parent, task_description, created_at) ==
    create_session_row(IF task_description /= "" THEN task_description
                       ELSE HandoffPrompt,
                       parent.max_tokens, created_at)

\* execute_spawn.  create_checkpoint and create_session each commit; the
\* lineage row and the parent's status are committed together at the end.
\* _generate_handoff_prompt has no except: what llm.complete raises leaves
\* execute_spawn after the checkpoint was committed.
\* fault names the step that raises: "llm" (_generate_handoff_prompt), the
\* final "commit", or "none".  task_description "" stands for None.
execute_spawn(parent_session_id, handoff_reason, task_description, fault) ==
    /\ Len(checkpoints) < MaxCheckpoints
    /\ Len(sessions) < MaxSessions
    /\ IF parent_session_id \notin DOMAIN sessions
       THEN /\ res' = Result("execute_spawn", parent_session_id, fault,
                             "not_found", 0, 0, <<>>)
            /\ UNCHANGED <<sessions, checkpoints, lineage, now>>
       ELSE LET parent == sessions[parent_session_id]
                checkpoint == checkpoint_row(parent_session_id, parent,
                                  session_memory_ids(parent_session_id),
                                  "spawn-" \o handoff_reason, SpawnMetadata, now)
                child == spawn_child_row(parent, task_description, now + 1)
                link == lineage_row(parent_session_id, NewSessionId,
                                    handoff_reason, NewCheckpointId, now + 2)
            IN  /\ checkpoints' = Append(checkpoints, checkpoint)
                /\ IF fault = "llm"
                   THEN /\ now' = now + 1
                        /\ UNCHANGED <<sessions, lineage>>
                        /\ res' = Result("execute_spawn", parent_session_id,
                                         fault, "error", 0, NewCheckpointId, <<>>)
                   ELSE IF fault = "commit" \/ ~UniqueChild(link.child_session_id)
                   THEN /\ now' = now + 2
                        /\ sessions' = Append(sessions, child)
                        /\ UNCHANGED lineage
                        /\ res' = Result("execute_spawn", parent_session_id,
                                         fault, "error", NewSessionId,
                                         NewCheckpointId, <<>>)
                   ELSE /\ now' = now + 3
                        /\ sessions' = Append(
                               [sessions EXCEPT
                                   ![parent_session_id].status = "completed"],
                               child)
                        /\ lineage' = Append(lineage, link)
                        /\ res' = Result("execute_spawn", parent_session_id,
                                         fault, "ok", NewSessionId,
                                         NewCheckpointId,
                                         [handoff_prompt |-> HandoffPrompt])
    /\ UNCHANGED <<memories, memory_seq>>
    /\ Bystander

\* restore_from_parent: a child session linked to the parent's latest
\* checkpoint (None when the parent has none).  create_session commits; the
\* lineage row is committed after it.  new_task "" stands for None.
restore_from_parent(parent_session_id, new_task, fault) ==
    /\ Len(sessions) < MaxSessions
    /\ IF parent_session_id \notin DOMAIN sessions
       THEN /\ res' = Result("restore_from_parent", parent_session_id, fault,
                             "not_found", 0, 0, <<>>)
            /\ UNCHANGED <<sessions, lineage, now>>
       ELSE LET parent == sessions[parent_session_id]
                checkpoint == get_latest_checkpoint(parent_session_id)
                task == IF new_task /= "" THEN new_task ELSE "Continue"
                child == create_session_row(task, parent.max_tokens, now)
                link == lineage_row(parent_session_id, NewSessionId,
                                    "5-hour boundary reset", checkpoint, now + 1)
            IN  /\ sessions' = Append(sessions, child)
                /\ IF fault = "commit" \/ ~UniqueChild(link.child_session_id)
                   THEN /\ now' = now + 1
                        /\ UNCHANGED lineage
                        /\ res' = Result("restore_from_parent",
                                         parent_session_id, fault, "error",
                                         NewSessionId, checkpoint, <<>>)
                   ELSE /\ now' = now + 2
                        /\ lineage' = Append(lineage, link)
                        /\ res' = Result("restore_from_parent",
                                         parent_session_id, fault, "ok",
                                         NewSessionId, checkpoint, <<>>)
    /\ UNCHANGED <<memories, memory_seq, checkpoints>>
    /\ Bystander

\* the rows select(SessionLineage).where(child_session_id == current_id) finds
ParentLinks(current_id) ==
    {i \in DOMAIN lineage : lineage[i].child_session_id = current_id}

\* the loop of get_session_lineage: history is appended to while walking up;
\* scalar_one_or_none raises when it finds more than one row
RECURSIVE WalkUp(_, _)
WalkUp(current_id, history) ==
    IF current_id = 0 \/ current_id \notin DOMAIN sessions
    THEN [raised |-> FALSE, history |-> history]
    ELSE LET links == ParentLinks(current_id)
             h == Append(history, current_id)
         IN IF Cardinality(links) > 1
            THEN [raised |-> TRUE, history |-> h]
            ELSE IF links = {}
            THEN [raised |-> FALSE, history |-> h]
            ELSE WalkUp(lineage[CHOOSE i \in links : TRUE].parent_session_id, h)

\* the history as collected, not reversed
NotReversed(seq) == seq

\* list(reversed(history))
Reversed(seq) == [i \in 1 .. Len(seq) |-> seq[Len(seq) + 1 - i]]

\* get_session_lineage: the session ids of the returned list, root first
get_session_lineage(session_id) ==
    LET w == WalkUp(session_id, <<>>)
    IN /\ res' = IF w.raised
                 THEN Result("get_session_lineage", session_id, 0, "error",
                             0, 0, <<>>)
                 ELSE Result("get_session_lineage", session_id, 0, "ok",
                             0, 0, Reversed(w.history))
       /\ UNCHANGED <<sessions, memories, memory_seq, checkpoints, lineage, now>>
       /\ Bystander

\* ------------------------------------------- watcher: cache and status

\* _extract_project_info: the source and the decoded project name of a path
extract_project_info(transcript_path) ==
    [source_name |-> "claude",
     project_name |-> IF transcript_path \in {"A", "B"} THEN "ralph" ELSE "other"]

\* os.path.dirname(event.path): one directory per project
project_dir(transcript_path) == extract_project_info(transcript_path).project_name

\* a cache key that tells the transcripts of one project apart
cache_key_per_transcript(source_name, project_name, transcript_path) ==
    <<source_name, project_name, transcript_path>>

\* key = f"{source_name}:{project_name}"
cache_key(source_name, project_name, transcript_path) ==
    <<source_name, project_name>>

\* f"Auto-detected: {source_name}:{project_name}"
auto_task(source_name, project_name) ==
    IF project_name = "ralph" THEN "Auto-detected: claude:ralph"
    ELSE "Auto-detected: claude:other"

\* the ProjectData that _update_project_tokens stores; context_usage,
\* last_updated, project_path and source_color are not read by any property
ProjectData(key, source_name, project_name, tokens, transcript_path, is_real_data) ==
    [key |-> key,
     name |-> project_name,
     current_tokens |-> tokens,
     max_tokens |-> MAX_CONTEXT_TOKENS,
     transcript_path |-> transcript_path,
     is_real_data |-> is_real_data,
     source_name |-> source_name]

\* self.cached_projects[key] = value: a dict keeps the position of a key it
\* already holds and puts a new key last
RECURSIVE cache_put(_, _)
cache_put(cache, value) ==
    IF cache = <<>> THEN <<value>>
    ELSE IF Head(cache).key = value.key THEN <<value>> \o Tail(cache)
    ELSE <<Head(cache)>> \o cache_put(Tail(cache), value)

\* self.cached_projects.pop(key, None)
cache_pop(cache, key) == SelectSeq(cache, LAMBDA e : e.key /= key)

\* list.sort(key=currentTokens, reverse=True): stable, so rows with equal
\* counts keep their order
\* row put into a sorted list behind the rows that do not have fewer tokens
RECURSIVE InsertByTokensDesc(_, _)
InsertByTokensDesc(sorted, row) ==
    IF sorted = <<>> THEN <<row>>
    ELSE IF Head(sorted).currentTokens >= row.currentTokens
    THEN <<Head(sorted)>> \o InsertByTokensDesc(Tail(sorted), row)
    ELSE <<row>> \o sorted

RECURSIVE SortByTokensDesc(_)
SortByTokensDesc(rows) ==
    IF rows = <<>> THEN <<>>
    ELSE InsertByTokensDesc(SortByTokensDesc(SubSeq(rows, 1, Len(rows) - 1)),
                            rows[Len(rows)])

RECURSIVE SumTokens(_)
SumTokens(rows) ==
    IF rows = <<>> THEN 0 ELSE rows[1].currentTokens + SumTokens(Tail(rows))

\* one row of get_status's projects list
project_row(p) ==
    [source |-> p.source_name,
     project |-> p.name,
     currentTokens |-> p.current_tokens,
     maxTokens |-> p.max_tokens,
     isRealData |-> p.is_real_data,
     transcriptPath |-> p.transcript_path]

\* the rows of the cached projects, in the order of the dict
RECURSIVE project_rows(_)
project_rows(cache) ==
    IF cache = <<>> THEN <<>>
    ELSE <<project_row(Head(cache))>> \o project_rows(Tail(cache))

\* get_status for a given content of cached_projects
status_of(cache) ==
    LET projects_list == SortByTokensDesc(project_rows(cache))
    IN [projectCount |-> Len(projects_list),
        projects |-> projects_list,
        totalTokens |-> SumTokens(projects_list)]

\* TranscriptWatcher.get_status
get_status == status_of(cached_projects)

\* ----------------------------------------------------------------- SSE
\* the subscriber list after a broadcast that forgets its cleanup
after_cleanup_keep(clients_list, disconnected) == clients_list

\* for q in disconnected: if q in _clients: _clients.remove(q)
after_cleanup(clients_list, disconnected) ==
    SelectSeq(clients_list, LAMBDA c : c \notin disconnected)

\* SSEManager.broadcast.  Every queue is an asyncio.Queue() without maxsize,
\* so put never waits; failing names the subscribers whose put raises.  The
\* message's ts is the payload's timestamp, read from the count of broadcasts.
Broadcast(event, data, failing) ==
    LET message == [event |-> event, data |-> data, ts |-> bcast_seq + 1]
        disconnected == {c \in Range(clients) : c \in failing}
        reached == Range(clients) \ disconnected
    IN /\ queues' = [c \in Subscribers |->
                        IF c \in reached THEN Append(queues[c], message)
                        ELSE queues[c]]
       /\ appended' = [c \in Subscribers |->
                          IF c \in reached THEN Append(appended[c], message)
                          ELSE appended[c]]
       /\ clients' = after_cleanup(clients, disconnected)
       /\ bcast_seq' = bcast_seq + 1

\* a frame for the steps that touch neither the store nor the watcher
SseOnly ==
    /\ UNCHANGED <<store_vars, ck_vars, watcher_vars, advice_vars>>
    /\ UNCHANGED bc_call

\* emit_mcp_status: a broadcast made by the MCP status monitor (main.py)
emit_mcp_status(failing) ==
    /\ bcast_seq < MaxBroadcasts
    /\ Broadcast("mcp:status", <<>>, failing)
    /\ res' = Result("emit_mcp_status", 0, failing, "ok", 0, 0, <<>>)
    /\ UNCHANGED <<sub_pc, emitted, idle>>
    /\ SseOnly

\* sse_events up to its return: the queue is created and registered
sse_events(c) ==
    /\ sub_pc[c] = "none"
    /\ clients' = Append(clients, c)
    /\ sub_pc' = [sub_pc EXCEPT ![c] = "registered"]
    /\ res' = Result("sse_events", 0, c, "ok", 0, 0, <<>>)
    /\ UNCHANGED <<queues, emitted, appended, bcast_seq, idle>>
    /\ SseOnly

\* event_generator up to its first yield: init with the watcher's status
event_generator_init(c) ==
    /\ sub_pc[c] = "registered"
    /\ \E init_data \in {get_status} :
          emitted' = [emitted EXCEPT ![c] =
                         Append(@, [event |-> "init", data |-> init_data,
                                    ts |-> bcast_seq])]
    /\ sub_pc' = [sub_pc EXCEPT ![c] = "streaming"]
    /\ idle' = [idle EXCEPT ![c] = 0]
    /\ res' = Result("event_generator_init", 0, c, "ok", 0, 0, <<>>)
    /\ UNCHANGED <<clients, queues, appended, bcast_seq>>
    /\ SseOnly

\* a get that takes the newest message
queue_get_newest(q) == [message |-> q[Len(q)], rest |-> SubSeq(q, 1, Len(q) - 1)]

\* queue.get(): the oldest message
queue_get(q) == [message |-> Head(q), rest |-> Tail(q)]

\* one turn of the streaming loop in which queue.get() returns
event_generator_next(c) ==
    /\ sub_pc[c] = "streaming"
    /\ queues[c] /= <<>>
    /\ LET got == queue_get(queues[c])
       IN /\ emitted' = [emitted EXCEPT ![c] = Append(@, got.message)]
          /\ queues' = [queues EXCEPT ![c] = got.rest]
    /\ idle' = [idle EXCEPT ![c] = 0]
    /\ res' = Result("event_generator_next", 0, c, "ok", 0, 0, <<>>)
    /\ UNCHANGED <<clients, sub_pc, appended, bcast_seq>>
    /\ SseOnly

Pings(c) == Len(SelectSeq(emitted[c], LAMBDA m : m.event = "ping"))

\* 10 s pass.  The event loop runs a task that is ready at once: no time
\* passes while a streaming generator has a message to get or a timeout to
\* handle, and a wait_for that has waited its 30 s times out before more time
\* passes.
sse_tick ==
    /\ \E c \in Subscribers : sub_pc[c] = "streaming"
    /\ \A c \in Subscribers :
           /\ sub_pc[c] /= "timed_out"
           /\ sub_pc[c] = "streaming" =>
                  queues[c] = <<>> /\ idle[c] < keepalive_timeout
    /\ idle' = [c \in Subscribers |->
                   IF sub_pc[c] = "streaming" THEN idle[c] + 1 ELSE idle[c]]
    /\ res' = Result("sse_tick", 0, 0, "ok", 0, 0, <<>>)
    /\ UNCHANGED <<clients, queues, sub_pc, emitted, appended, bcast_seq>>
    /\ SseOnly

\* wait_for's timer fires after 30 s on an empty queue: the pending get is to
\* be cancelled and TimeoutError raised when the generator's task runs next;
\* a broadcast that runs before it finds the queue as it is
wait_for_timeout(c) ==
    /\ sub_pc[c] = "streaming"
    /\ queues[c] = <<>>
    /\ idle[c] = keepalive_timeout
    /\ Pings(c) < MaxPings
    /\ sub_pc' = [sub_pc EXCEPT ![c] = "timed_out"]
    /\ res' = Result("wait_for_timeout", 0, c, "ok", 0, 0, <<>>)
    /\ UNCHANGED <<clients, queues, emitted, appended, bcast_seq, idle>>
    /\ SseOnly

\* a cancelled get that takes a message with it
cancelled_get_takes(q) == IF q = <<>> THEN q ELSE Tail(q)

\* the queue after wait_for has cancelled queue.get(): a get that is
\* cancelled while it waits has not taken anything out
cancelled_get(q) == q

\* the turn of the streaming loop that ends in except asyncio.TimeoutError:
\* a keepalive is yielded
event_generator_ping(c) ==
    /\ sub_pc[c] = "timed_out"
    /\ queues' = [queues EXCEPT ![c] = cancelled_get(@)]
    /\ emitted' = [emitted EXCEPT ![c] =
                      Append(@, [event |-> "ping", data |-> <<>>,
                                 ts |-> bcast_seq])]
    /\ sub_pc' = [sub_pc EXCEPT ![c] = "streaming"]
    /\ idle' = [idle EXCEPT ![c] = 0]
    /\ res' = Result("event_generator_ping", 0, c, "ok", 0, 0, <<>>)
    /\ UNCHANGED <<clients, appended, bcast_seq>>
    /\ SseOnly

\* the client goes away: CancelledError in the generator, whose finally
\* removes the queue from _clients
event_generator_cancel(c) ==
    /\ sub_pc[c] \in {"streaming", "timed_out"}
    /\ clients' = SelectSeq(clients, LAMBDA x : x /= c)
    /\ sub_pc' = [sub_pc EXCEPT ![c] = "closed"]
    /\ res' = Result("event_generator_cancel", 0, c, "ok", 0, 0, <<>>)
    /\ UNCHANGED <<queues, emitted, appended, bcast_seq, idle>>
    /\ SseOnly

\* the client goes away before the response has asked the generator for its
\* first event: the generator is closed without having run, so neither its
\* except nor its finally runs, and the queue stays in _clients
sse_abandon(c) ==
    /\ sub_pc[c] = "registered"
    /\ sub_pc' = [sub_pc EXCEPT ![c] = "closed"]
    /\ res' = Result("sse_abandon", 0, c, "ok", 0, 0, <<>>)
    /\ UNCHANGED <<clients, queues, emitted, appended, bcast_seq, idle>>
    /\ SseOnly

\* SSEManager.broadcast followed statement by statement.  The loop
\* `for queue in _clients` walks the list itself, by position, and the
\* cleanup removes from the same list; there is no lock and no copy.
\* a put that waits, as on a queue with a maxsize that is full
put_may_suspend == TRUE

\* whether `await queue.put(message)` gives the event loop a chance to run
\* another task: the queue is an asyncio.Queue() without maxsize, so put
\* finds it not full and returns without waiting
put_suspends == FALSE

\* another task of the event loop runs only while the broadcasting task is
\* suspended
MayRun == bc_call.pc = "idle" \/ put_suspends

\* message = {...}; disconnected = []; the loop begins
bc_begin(failing) ==
    /\ bc_call.pc = "idle"
    /\ bcast_seq < MaxBroadcasts
    /\ bc_call' = [pc |-> "loop", i |-> 1, disconnected |-> {},
                   failing |-> failing, ts |-> bcast_seq + 1,
                   at_begin |-> Range(clients)]
    /\ bcast_seq' = bcast_seq + 1
    /\ res' = Result("bc_begin", 0, failing, "ok", 0, 0, <<>>)
    /\ UNCHANGED <<clients, queues, sub_pc, emitted, appended, idle>>
    /\ UNCHANGED <<store_vars, ck_vars, watcher_vars, advice_vars>>

\* one turn of the loop: await queue.put(message) for the queue at the
\* loop's position in _clients as the list is now
bc_put ==
    /\ bc_call.pc = "loop"
    /\ bc_call.i <= Len(clients)
    /\ LET queue == clients[bc_call.i]
           message == [event |-> "mcp:status", data |-> <<>>, ts |-> bc_call.ts]
       IN IF queue \in bc_call.failing
          THEN /\ bc_call' = [bc_call EXCEPT
                                 !.i = @ + 1,
                                 !.disconnected = @ \cup {queue}]
               /\ UNCHANGED <<queues, appended>>
          ELSE /\ bc_call' = [bc_call EXCEPT !.i = @ + 1]
               /\ queues' = [queues EXCEPT ![queue] = Append(@, message)]
               /\ appended' = [appended EXCEPT ![queue] = Append(@, message)]
    /\ res' = Result("bc_put", 0, bc_call.i, "ok", 0, 0, <<>>)
    /\ UNCHANGED <<clients, sub_pc, emitted, bcast_seq, idle>>
    /\ UNCHANGED <<store_vars, ck_vars, watcher_vars, advice_vars>>

\* the loop is past the end of the list: the cleanup, and the return
bc_cleanup ==
    /\ bc_call.pc = "loop"
    /\ bc_call.i > Len(clients)
    /\ clients' = after_cleanup(clients, bc_call.disconnected)
    /\ bc_call' = NoBroadcast
    /\ res' = Result("bc_cleanup", 0, bc_call.ts, "ok", 0, 0, <<>>)
    /\ UNCHANGED <<queues, sub_pc, emitted, appended, bcast_seq, idle>>
    /\ UNCHANGED <<store_vars, ck_vars, watcher_vars, advice_vars>>

\* ------------------------------------------------- transcript watcher
\* what a transcript may hold: a last assistant turn with a usage block (its
\* input_tokens + cache_creation_input_tokens), or none, and the file's size
FileContents ==
    {[has_usage |-> TRUE, usage |-> 5000, size |-> 12, readable |-> TRUE],
     [has_usage |-> TRUE, usage |-> MAX_CONTEXT_TOKENS + 1, size |-> 12,
      readable |-> TRUE],
     [has_usage |-> FALSE, usage |-> 0, size |-> 12, readable |-> TRUE]}

\* a transcript that open() or read() fails on (its mode forbids reading, or
\* the device fails), while os.stat and os.path.getsize still answer
UnreadableContents ==
    {[has_usage |-> TRUE, usage |-> 5000, size |-> 12, readable |-> FALSE]}

\* a FileChangeEvent; its timestamp, which the watcher never reads, is the
\* rank of the event among the events produced
FileChangeEvent(event_type, path) ==
    [event_type |-> event_type, path |-> path, timestamp |-> event_seq + 1]

\* the event queue after a file change: the observer thread, which runs
\* between start and stop, puts the event at the tail
observed(event) == IF running THEN Append(event_queue, event) ELSE event_queue

\* a write to the file, and on_created / on_modified in the observer thread
fs_write(path, content) ==
    /\ event_seq < MaxEvents
    /\ files' = [files EXCEPT ![path] =
                    [exists |-> TRUE, mtime |-> fs_clock + 1,
                     has_usage |-> content.has_usage, usage |-> content.usage,
                     size |-> content.size, readable |-> content.readable]]
    /\ fs_clock' = fs_clock + 1
    /\ event_queue' = observed(
           FileChangeEvent(IF files[path].exists THEN "modified" ELSE "created",
                           path))
    /\ event_seq' = event_seq + 1
    /\ res' = Result("fs_write", 0, path, "ok", 0, 0, <<>>)
    /\ UNCHANGED <<pending_updates, wnow, cached_projects, handled, running, handling>>
    /\ UNCHANGED <<store_vars, ck_vars, sse_vars, advice_vars>>

\* event.is_directory, src_path.endswith('.jsonl') and
\* src_path.split('/')[-1].startswith('agent-') for the paths of the model
is_directory(src_path) == src_path = "dir.jsonl"
endswith_jsonl(src_path) == src_path /= "notes.txt"
startswith_agent(src_path) == src_path = "agent-1.jsonl"

EventTypes == {"created", "modified", "deleted"}

\* TranscriptWatcherHandler: the event is put on the queue.  on_created and
\* on_modified test the basename for agent-, on_deleted does not.
enqueues(event_type, src_path) ==
    /\ ~is_directory(src_path)
    /\ endswith_jsonl(src_path)
    /\ event_type = "deleted" \/ ~startswith_agent(src_path)

\* the observer reports an event for one of the other entries
fs_other(event_type, src_path) ==
    /\ event_seq < MaxEvents
    /\ event_queue' = IF enqueues(event_type, src_path)
                      THEN observed(FileChangeEvent(event_type, src_path))
                      ELSE event_queue
    /\ event_seq' = event_seq + 1
    /\ res' = Result("fs_other", 0,
                     [event_type |-> event_type, path |-> src_path],
                     "ok", 0, 0, <<>>)
    /\ UNCHANGED <<files, fs_clock, pending_updates, wnow, cached_projects,
                   handled, running, handling>>
    /\ UNCHANGED <<store_vars, ck_vars, sse_vars, advice_vars>>

\* on_modified once more for a file whose content has not changed since
\* (the observer reports one write as several events)
on_modified(path) ==
    /\ event_seq < MaxEvents
    /\ running
    /\ files[path].exists
    /\ event_queue' = Append(event_queue, FileChangeEvent("modified", path))
    /\ event_seq' = event_seq + 1
    /\ res' = Result("on_modified", 0, path, "ok", 0, 0, <<>>)
    /\ UNCHANGED <<files, fs_clock, pending_updates, wnow, cached_projects, handled,
                   running, handling>>
    /\ UNCHANGED <<store_vars, ck_vars, sse_vars, advice_vars>>

\* the file is removed, and on_deleted in the observer thread
fs_delete(path) ==
    /\ event_seq < MaxEvents
    /\ files[path].exists
    /\ files' = [files EXCEPT ![path] = NoFile]
    /\ event_queue' = observed(FileChangeEvent("deleted", path))
    /\ event_seq' = event_seq + 1
    /\ res' = Result("fs_delete", 0, path, "ok", 0, 0, <<>>)
    /\ UNCHANGED <<fs_clock, pending_updates, wnow, cached_projects, handled,
                   running, handling>>
    /\ UNCHANGED <<store_vars, ck_vars, sse_vars, advice_vars>>

\* time passes: one throttle delay
tick ==
    /\ wnow < pending_keep + MaxTicks * throttle_delay
    /\ wnow' = wnow + throttle_delay
    /\ res' = Result("tick", 0, 0, "ok", 0, 0, <<>>)
    /\ UNCHANGED <<files, fs_clock, event_queue, event_seq, pending_updates,
                   cached_projects, handled, running, handling>>
    /\ UNCHANGED <<store_vars, ck_vars, sse_vars, advice_vars>>

\* the clock runs on while the loop takes a throttled event and puts it back
\* (lines 399-406 read datetime.now() at every turn)
clock_runs ==
    /\ running
    /\ \E i \in DOMAIN event_queue :
           wnow - pending_updates[event_queue[i].path] < throttle_delay
    /\ wnow' = wnow + throttle_delay
    /\ res' = Result("clock_runs", 0, 0, "ok", 0, 0, <<>>)
    /\ UNCHANGED <<files, fs_clock, event_queue, event_seq, pending_updates,
                   cached_projects, handled, running, handling>>
    /\ UNCHANGED <<store_vars, ck_vars, sse_vars, advice_vars>>

\* get_last_assistant_usage: None when the file cannot be read (the
\* exception is caught there) or holds no assistant turn with usage
last_assistant_usage(transcript_path) ==
    IF /\ files[transcript_path].exists
       /\ files[transcript_path].readable
       /\ files[transcript_path].has_usage
    THEN [is_none |-> FALSE, value |-> files[transcript_path].usage]
    ELSE [is_none |-> TRUE, value |-> 0]

Min(a, b) == IF a <= b THEN a ELSE b

\* _update_project_tokens, lines 298-308: the token count of a transcript;
\* os.path.getsize raises when the file is gone
transcript_tokens(transcript_path) ==
    LET real_tokens == last_assistant_usage(transcript_path)
    IN IF real_tokens.is_none
       THEN IF files[transcript_path].exists
            THEN [raised |-> FALSE,
                  tokens |-> Min((files[transcript_path].size \div BYTES_PER_TOKEN)
                                     + SYSTEM_OVERHEAD_TOKENS,
                                 MAX_CONTEXT_TOKENS)]
            ELSE [raised |-> TRUE, tokens |-> 0]
       ELSE [raised |-> FALSE,
             tokens |-> Min(real_tokens.value, MAX_CONTEXT_TOKENS)]

\* _get_project_transcripts: the transcripts in a project directory
project_transcripts(dir) ==
    {p \in Paths : files[p].exists /\ project_dir(p) = dir}

\* _is_active_transcript: the most recently modified transcript of the
\* directory (two writes never carry the same mtime)
is_active_transcript(transcript_path, dir) ==
    \/ project_transcripts(dir) = {}
    \/ /\ transcript_path \in project_transcripts(dir)
       /\ \A p \in project_transcripts(dir) :
              files[p].mtime <= files[transcript_path].mtime

\* ------------------------------------------ the lines of a transcript
\* the sizes of a line in bytes, its newline included: a short one, one
\* longer than the tail that is read, and one that alone exceeds
\* BYTES_PER_TOKEN * (MAX_CONTEXT_TOKENS - SYSTEM_OVERHEAD_TOKENS)
LineBytes == {4000, 12000, 1200000}
InputTokens == {0, 1000, MAX_CONTEXT_TOKENS}
CacheCreationTokens == {0, 500}
CacheReadTokens == {0, 50000}

\* a line of the transcript, written as Claude Code writes it (compact JSON):
\* its "type", whether message.usage is there and not empty, and the three
\* counts of the usage block
JsonLine(type, has_usage, input, cache_creation, cache_read, bytes) ==
    [type |-> type, has_usage |-> has_usage, input_tokens |-> input,
     cache_creation_input_tokens |-> cache_creation,
     cache_read_input_tokens |-> cache_read, bytes |-> bytes]

TranscriptLines ==
    {JsonLine(t, FALSE, 0, 0, 0, b) : t \in {"user", "assistant"}, b \in LineBytes}
    \cup {JsonLine("assistant", TRUE, i, cc, cr, b) :
              i \in InputTokens, cc \in CacheCreationTokens,
              cr \in CacheReadTokens, b \in LineBytes}

\* os.path.getsize
RECURSIVE file_size(_)
file_size(lines) ==
    IF lines = <<>> THEN 0 ELSE Head(lines).bytes + file_size(Tail(lines))

\* get_last_assistant_usage, lines 169-178: the content read is the last
\* TRANSCRIPT_TAIL_SIZE bytes of the file.  A line that begins before them
\* arrives without its beginning, which is not JSON: _extract_usage_from_content
\* skips it, so only the lines that lie wholly in the tail count.
RECURSIVE tail_lines(_)
tail_lines(lines) ==
    IF lines = <<>> \/ file_size(lines) <= TRANSCRIPT_TAIL_SIZE THEN lines
    ELSE tail_lines(Tail(lines))

\* a count that takes the cached prefix in as well
total_context_with_cache_read(usage) ==
    usage.input_tokens + usage.cache_creation_input_tokens
        + usage.cache_read_input_tokens

\* total_context of _extract_usage_from_content
total_context(usage) ==
    usage.input_tokens + usage.cache_creation_input_tokens

\* _extract_usage_from_content: the lines are scanned from the last one back
RECURSIVE extract_usage_from_content(_)
extract_usage_from_content(lines) ==
    IF lines = <<>> THEN [is_none |-> TRUE, value |-> 0]
    ELSE LET line == lines[Len(lines)]
         IN IF line.type = "assistant" /\ line.has_usage
            THEN [is_none |-> FALSE, value |-> total_context(line)]
            ELSE extract_usage_from_content(SubSeq(lines, 1, Len(lines) - 1))

\* get_last_assistant_usage for a file that can be read
get_last_assistant_usage(lines) == extract_usage_from_content(tail_lines(lines))

\* _update_project_tokens, lines 298-308 and 337-348, and get_status: the row
\* the watcher reports for the active transcript of claude:ralph
reported_row(lines) ==
    LET real_tokens == get_last_assistant_usage(lines)
        tokens == IF real_tokens.is_none
                  THEN Min((file_size(lines) \div BYTES_PER_TOKEN)
                               + SYSTEM_OVERHEAD_TOKENS,
                           MAX_CONTEXT_TOKENS)
                  ELSE Min(real_tokens.value, MAX_CONTEXT_TOKENS)
    IN project_row(ProjectData(cache_key("claude", "ralph", "A"), "claude",
                               "ralph", tokens, "A", ~real_tokens.is_none))

\* the watcher reads a transcript of the given lines; the lines and the row
\* it reports are recorded
report_transcript(lines) ==
    /\ res' = Result("report_transcript", 0, lines, "ok", 0, 0,
                     reported_row(lines))
    /\ UNCHANGED <<store_vars, ck_vars, sse_vars, watcher_vars, advice_vars>>

\* Claude Code appends a line to the transcript last read, and the watcher
\* reads it again
append_line ==
    \E line \in TranscriptLines :
        LET lines == IF res.op = "report_transcript" THEN res.arg ELSE <<>>
        IN /\ Len(lines) < MaxLines
           /\ report_transcript(Append(lines, line))

\* the same query with the bare key f"{source_name}:{project_name}" as the
\* description looked for, which no session carries
auto_session_by_key(rows, task) ==
    LET found == OrderDesc(rows,
                     {i \in DOMAIN rows :
                         "Auto-detected: " \o rows[i].task_description = task})
    IN IF found = <<>> THEN 0 ELSE found[1]

\* select(Session).where(task_description == ...).order_by(created_at.desc())
\* .limit(1) over a given content of the sessions table, 0 for None
auto_session_in(rows, task) ==
    LET found == OrderDesc(rows,
                     {i \in DOMAIN rows : rows[i].task_description = task})
    IN IF found = <<>> THEN 0 ELSE found[1]

\* the query over the sessions table as it is
auto_session(task) == auto_session_in(sessions, task)

\* what a call of _handle_file_event may change
handler_vars == <<sessions, now, cached_projects, clients, queues, appended,
                  bcast_seq>>

\* the Session row _update_project_tokens inserts for a new conversation
auto_session_row(task, tokens, created_at) ==
    [task_description |-> task,
     max_tokens |-> MAX_CONTEXT_TOKENS,
     current_tokens |-> tokens,
     status |-> "active",
     created_at |-> created_at]

\* _update_project_tokens with the cache entry built from real_tokens, the
\* count before min(real_tokens, MAX_CONTEXT_TOKENS)
update_project_tokens_uncapped(source_name, project_name, transcript_path) ==
    LET t == transcript_tokens(transcript_path)
        real_tokens == last_assistant_usage(transcript_path)
        task == auto_task(source_name, project_name)
        session == auto_session(task)
        key == cache_key(source_name, project_name, transcript_path)
    IN IF t.raised
       THEN UNCHANGED handler_vars
       ELSE /\ IF session /= 0
               THEN /\ sessions' = [sessions EXCEPT
                                       ![session].current_tokens = t.tokens]
                    /\ UNCHANGED now
               ELSE /\ Len(sessions) < MaxSessions
                    /\ sessions' = Append(sessions,
                                          auto_session_row(task, t.tokens, now))
                    /\ now' = now + 1
            /\ bcast_seq < MaxBroadcasts
            /\ \E cache \in {cache_put(cached_projects,
                   ProjectData(key, source_name, project_name,
                               IF real_tokens.is_none THEN t.tokens
                               ELSE real_tokens.value,
                               transcript_path, ~real_tokens.is_none))} :
                  /\ cached_projects' = cache
                  /\ \E status \in {status_of(cache)} :
                         Broadcast("update", status, {})

\* _update_project_tokens.  An exception (the file is gone) is caught and
\* logged by the function itself, which then has changed nothing.  The
\* watcher's sse_manager is set at startup (main.py), so it always broadcasts.
update_project_tokens(source_name, project_name, transcript_path) ==
    LET t == transcript_tokens(transcript_path)
        task == auto_task(source_name, project_name)
        session == auto_session(task)
        key == cache_key(source_name, project_name, transcript_path)
    IN IF t.raised
       THEN UNCHANGED handler_vars
       ELSE /\ IF session /= 0
               THEN /\ sessions' = [sessions EXCEPT
                                       ![session].current_tokens = t.tokens]
                    /\ UNCHANGED now
               ELSE /\ Len(sessions) < MaxSessions
                    /\ sessions' = Append(sessions,
                                          auto_session_row(task, t.tokens, now))
                    /\ now' = now + 1
            /\ bcast_seq < MaxBroadcasts
            /\ \E cache \in {cache_put(cached_projects,
                   ProjectData(key, source_name, project_name, t.tokens,
                               transcript_path,
                               ~last_assistant_usage(transcript_path).is_none))} :
                  /\ cached_projects' = cache
                  /\ \E status \in {status_of(cache)} :
                         Broadcast("update", status, {})

\* _handle_deleted_transcript raises when it finds the project's session:
\* SessionStatus has no member INACTIVE (models/session.py), so evaluating
\* SessionStatus.INACTIVE is an AttributeError, before anything is assigned
deleted_raises(path) ==
    LET info == extract_project_info(path)
    IN auto_session(auto_task(info.source_name, info.project_name)) /= 0

\* _handle_deleted_transcript
handle_deleted_transcript(path) ==
    LET info == extract_project_info(path)
        key == cache_key(info.source_name, info.project_name, path)
    IN IF deleted_raises(path)
       THEN UNCHANGED handler_vars
       ELSE /\ cached_projects' = cache_pop(cached_projects, key)
            /\ UNCHANGED <<sessions, now, clients, queues, appended, bcast_seq>>

\* _handle_file_event
handle_file_event(event) ==
    IF event.event_type = "deleted"
    THEN handle_deleted_transcript(event.path)
    ELSE IF ~is_active_transcript(event.path, project_dir(event.path))
    THEN UNCHANGED handler_vars
    ELSE LET info == extract_project_info(event.path)
         IN update_project_tokens(info.source_name, info.project_name, event.path)

\* the call reaches the cache update of _update_project_tokens
updates_project(event) ==
    /\ event.event_type /= "deleted"
    /\ is_active_transcript(event.path, project_dir(event.path))
    /\ ~transcript_tokens(event.path).raised

\* the exception of _handle_file_event that reaches _process_events_loop
handle_file_event_raises(event) ==
    event.event_type = "deleted" /\ deleted_raises(event.path)

\* _pending_updates without the entries of 10 s ago and older
clean_pending_updates(pending, at) ==
    [p \in EventPaths |-> IF at - pending[p] < pending_keep THEN pending[p] ELSE 0]

\* a watcher step beside a create_checkpoint in flight
WatcherBeside ==
    /\ UNCHANGED <<memories, memory_seq, checkpoints, lineage, ck_call, ck_origin,
                   advice_vars>>
    /\ ck_views' = IF ck_call.pc = "idle" THEN {}
                   ELSE ck_views \cup {View(ck_call.session_id)'}

\* the queue with its head taken and not put back
requeue_dropped(queue, event) == Tail(queue)

\* lines 393 and 405: the event taken from the head is put back at the tail
requeue(queue, event) == Append(Tail(queue), event)

\* one turn of _process_events_loop that finds an event in the queue
process_event ==
    /\ running
    /\ handling.pc = "idle"
    /\ event_queue /= <<>>
    /\ LET event == Head(event_queue)
           last_update == pending_updates[event.path]
       IN IF wnow - last_update < throttle_delay
          THEN /\ event_queue' = requeue(event_queue, event)
               /\ res' = Result("process_event", 0, event.timestamp, "deferred",
                                0, 0, <<>>)
               /\ UNCHANGED <<pending_updates, handled>>
               /\ UNCHANGED handler_vars
          ELSE /\ event_queue' = Tail(event_queue)
               /\ handled' = Append(handled,
                      [event_type |-> event.event_type, path |-> event.path,
                       timestamp |-> event.timestamp,
                       updated |-> updates_project(event)])
               /\ handle_file_event(event)
               /\ pending_updates' =
                      IF handle_file_event_raises(event)
                      THEN [pending_updates EXCEPT ![event.path] = wnow]
                      ELSE clean_pending_updates(
                               [pending_updates EXCEPT ![event.path] = wnow], wnow)
               /\ res' = Result("process_event", 0, event.timestamp,
                                IF handle_file_event_raises(event)
                                THEN "error" ELSE "handled", 0, 0, <<>>)
    /\ UNCHANGED <<files, fs_clock, event_seq, wnow, sub_pc, emitted, idle,
                   bc_call, running, handling>>
    /\ WatcherBeside

\* one turn of _process_events_loop for an event past the throttle whose
\* handling reaches the database while the database fails: db.execute (line
\* 314) or db.commit (325, 336) raises, the session's context manager rolls
\* the transaction back, and the except of line 359 logs the error, so the
\* call returns having written neither the session nor the cache entry and
\* having broadcast nothing
process_event_store_fails ==
    /\ running
    /\ handling.pc = "idle"
    /\ event_queue /= <<>>
    /\ LET event == Head(event_queue)
       IN /\ wnow - pending_updates[event.path] >= throttle_delay
          /\ updates_project(event)
          /\ event_queue' = Tail(event_queue)
          /\ handled' = Append(handled,
                 [event_type |-> event.event_type, path |-> event.path,
                  timestamp |-> event.timestamp, updated |-> FALSE])
          /\ pending_updates' = clean_pending_updates(
                 [pending_updates EXCEPT ![event.path] = wnow], wnow)
          /\ res' = Result("process_event", 0, event.timestamp,
                           "store_failed", 0, 0, <<>>)
    /\ UNCHANGED handler_vars
    /\ UNCHANGED <<files, fs_clock, event_seq, wnow, sub_pc, emitted, idle,
                   bc_call, running, handling>>
    /\ WatcherBeside

\* the directories os.listdir(source.projects_dir) returns, in either order
ProjectDirs == {<<"ralph", "other">>, <<"other", "ralph">>}

\* one turn of the loop of _initial_sync: _update_project_tokens for the most
\* recently modified transcript of the directory.  st holds the sessions
\* table, the clock, cached_projects and the count of broadcasts as the turns
\* before have left them; no subscriber is connected while the application
\* starts, so the broadcast reaches nobody.
sync_project(st, dir) ==
    LET transcripts == project_transcripts(dir)
    IN IF transcripts = {} THEN st
       ELSE LET active_path == CHOOSE p \in transcripts :
                                  \A q \in transcripts :
                                      files[q].mtime <= files[p].mtime
                source_name == extract_project_info(active_path).source_name
                t == transcript_tokens(active_path)
                task == auto_task(source_name, dir)
                session == auto_session_in(st.sessions, task)
                key == cache_key(source_name, dir, active_path)
            IN IF t.raised THEN st
               ELSE [sessions |->
                         IF session /= 0
                         THEN [st.sessions EXCEPT
                                  ![session].current_tokens = t.tokens]
                         ELSE Append(st.sessions,
                                     auto_session_row(task, t.tokens, st.now)),
                     now |-> IF session /= 0 THEN st.now ELSE st.now + 1,
                     cache |-> cache_put(st.cache,
                                  ProjectData(key, source_name, dir, t.tokens,
                                      active_path,
                                      ~last_assistant_usage(active_path).is_none)),
                     bcast |-> st.bcast + 1]

\* _initial_sync over the directories in the given order
RECURSIVE initial_sync(_, _)
initial_sync(st, dirs) ==
    IF dirs = <<>> THEN st
    ELSE initial_sync(sync_project(st, Head(dirs)), Tail(dirs))

\* the application starts (main.py, lifespan): a new process, whose watcher
\* has an empty cache and an empty event queue, starts the observer and runs
\* _initial_sync before the server accepts a connection
start ==
    /\ ~running
    /\ clients = <<>>
    /\ \E dirs \in ProjectDirs :
          \E st \in {initial_sync([sessions |-> sessions, now |-> now,
                                   cache |-> <<>>, bcast |-> bcast_seq], dirs)} :
              /\ Len(st.sessions) <= MaxSessions
              /\ st.bcast <= MaxBroadcasts
              /\ sessions' = st.sessions
              /\ now' = st.now
              /\ cached_projects' = st.cache
              /\ bcast_seq' = st.bcast
    /\ running' = TRUE
    /\ res' = Result("start", 0, 0, "ok", 0, 0, <<>>)
    /\ UNCHANGED <<files, fs_clock, event_queue, event_seq, pending_updates,
                   wnow, handled, handling>>
    /\ UNCHANGED <<clients, queues, sub_pc, emitted, appended, idle, bc_call>>
    /\ WatcherBeside

\* the application shuts down (main.py, lifespan): no request is in flight
\* and no subscriber is connected any more; TranscriptWatcher.stop ends the
\* observer and the processing task, and the watcher's memory goes with the
\* process
stop ==
    /\ running
    /\ clients = <<>>
    /\ ck_call.pc = "idle"
    /\ handling.pc = "idle"
    /\ running' = FALSE
    /\ event_queue' = <<>>
    /\ pending_updates' = [p \in EventPaths |-> 0]
    /\ cached_projects' = <<>>
    /\ res' = Result("stop", 0, 0, "ok", 0, 0, <<>>)
    /\ UNCHANGED <<files, fs_clock, event_seq, wnow, handled, handling>>
    /\ UNCHANGED <<store_vars, sse_vars>>
    /\ WatcherBeside

\* ------------------------------------- the MCP server's SessionDB
\* the arguments of the calls of the model; "completed" is the status the
\* free tool sets (tools/free.py, line 119)
McpIds == {"s1", "s2"}
McpTasks == {"Task 1", "Task 1 updated"}
McpMaxTokens == {DEFAULT_MAX_TOKENS, 100000}
McpStatuses == {"completed"}

\* a row of mcp_sessions: the columns of the CREATE TABLE and of the two
\* ALTER TABLE of _run_migrations
McpSessionRow(id, project_path, task_description, created_at, last_accessed, max_tokens, current_tokens, status) ==
    [id |-> id, project_path |-> project_path,
     task_description |-> task_description, created_at |-> created_at,
     last_accessed |-> last_accessed, max_tokens |-> max_tokens,
     current_tokens |-> current_tokens, status |-> status]

\* a frame for the steps of the SessionDB
McpOnly ==
    UNCHANGED <<store_vars, ck_vars, sse_vars, watcher_vars, decided,
                memory_rows>>

\* INSERT OR REPLACE INTO mcp_sessions (id, project_path, task_description,
\* max_tokens, last_accessed): a row with the same primary key is deleted
\* and the new row inserted, the columns the statement does not name taking
\* their defaults: created_at CURRENT_TIMESTAMP, current_tokens 0, status
\* 'active'
insert_or_replace(rows, id, project_path, task_description, max_tokens, at) ==
    Append(SelectSeq(rows, LAMBDA r : r.id /= id),
           McpSessionRow(id, project_path, task_description, at, at,
                         max_tokens, 0, "active"))

\* SessionDB.save_session
save_session(session_id, project_path, task_description, max_tokens) ==
    /\ mcp_sessions' = insert_or_replace(mcp_sessions, session_id,
                            project_path, task_description, max_tokens,
                            mcp_clock)
    /\ res' = Result("save_session", 0,
                     [session_id |-> session_id,
                      task_description |-> task_description,
                      max_tokens |-> max_tokens],
                     "ok", 0, 0, <<>>)
    /\ UNCHANGED mcp_clock
    /\ McpOnly

\* SessionDB.update_session_status: UPDATE ... SET status = ?,
\* last_accessed = CURRENT_TIMESTAMP WHERE id = ?
update_session_status(session_id, status) ==
    /\ mcp_sessions' = [i \in DOMAIN mcp_sessions |->
                           IF mcp_sessions[i].id = session_id
                           THEN [mcp_sessions[i] EXCEPT
                                    !.status = status,
                                    !.last_accessed = mcp_clock]
                           ELSE mcp_sessions[i]]
    /\ res' = Result("update_session_status", 0,
                     [session_id |-> session_id, status |-> status],
                     "ok", 0, 0, <<>>)
    /\ UNCHANGED mcp_clock
    /\ McpOnly

\* a second passes on the clock CURRENT_TIMESTAMP reads
mcp_second ==
    /\ mcp_clock < MaxSeconds
    /\ mcp_clock' = mcp_clock + 1
    /\ res' = Result("mcp_second", 0, 0, "ok", 0, 0, <<>>)
    /\ UNCHANGED mcp_sessions
    /\ McpOnly

\* -------------------------------- _handle_file_event, await by await
\* _process_events_loop, lines 393-411, takes an event past the throttle whose
\* handling reaches the database, and _update_project_tokens, lines 298-314,
\* reads the token count and suspends in await db.execute(select(Session))
handle_begin ==
    /\ running
    /\ handling.pc = "idle"
    /\ event_queue /= <<>>
    /\ LET event == Head(event_queue)
       IN /\ wnow - pending_updates[event.path] >= throttle_delay
          /\ updates_project(event)
          /\ event_queue' = Tail(event_queue)
          /\ pending_updates' = [pending_updates EXCEPT ![event.path] = wnow]
          /\ handling' = [pc |-> "select", event |-> event, at |-> wnow,
                          tokens |-> transcript_tokens(event.path).tokens,
                          is_real |-> ~last_assistant_usage(event.path).is_none,
                          session |-> 0]
          /\ res' = Result("handle_begin", 0, event.timestamp, "awaiting",
                           0, 0, <<>>)
    /\ UNCHANGED <<files, fs_clock, event_seq, wnow, cached_projects, handled,
                   running>>
    /\ UNCHANGED <<store_vars, sse_vars>>
    /\ WatcherBeside

\* the description of the session the suspended call works on
handling_task(h) ==
    LET info == extract_project_info(h.event.path)
    IN auto_task(info.source_name, info.project_name)

\* the sessions table once the commit of the suspended call has been applied:
\* lines 322-336
committed_sessions(h) ==
    IF h.session /= 0
    THEN [sessions EXCEPT ![h.session].current_tokens = h.tokens]
    ELSE Append(sessions, auto_session_row(handling_task(h), h.tokens, now))

\* _update_project_tokens, lines 339-357, and the loop's lines 414-417: the
\* cache entry, the broadcast and the cleaning of _pending_updates
finish_handling(h) ==
    LET info == extract_project_info(h.event.path)
        key == cache_key(info.source_name, info.project_name, h.event.path)
    IN /\ bcast_seq < MaxBroadcasts
       /\ \E cache \in {cache_put(cached_projects,
              ProjectData(key, info.source_name, info.project_name, h.tokens,
                          h.event.path, h.is_real))} :
             /\ cached_projects' = cache
             /\ \E status \in {status_of(cache)} :
                    Broadcast("update", status, {})
       /\ handled' = Append(handled,
              [event_type |-> h.event.event_type, path |-> h.event.path,
               timestamp |-> h.event.timestamp, updated |-> TRUE])
       /\ pending_updates' = clean_pending_updates(pending_updates, h.at)
       /\ handling' = NoHandling
       /\ res' = Result("handle_finish", 0, h.event.timestamp, "handled",
                        0, 0, <<>>)
       /\ UNCHANGED <<files, fs_clock, event_seq, event_queue, wnow, running,
                      sub_pc, emitted, idle, bc_call>>
       /\ WatcherBeside

\* the select returns, lines 314-323: a session that already holds the count
\* needs no commit and the call runs on to its end; otherwise the call
\* suspends in await db.commit()
handle_select ==
    /\ running
    /\ handling.pc = "select"
    /\ LET session == auto_session(handling_task(handling))
       IN IF session /= 0 /\ sessions[session].current_tokens = handling.tokens
          THEN /\ finish_handling(handling)
               /\ UNCHANGED <<sessions, now>>
          ELSE /\ handling' = [handling EXCEPT !.pc = "commit",
                                               !.session = session]
               /\ res' = Result("handle_select", 0, handling.event.timestamp,
                                "awaiting", 0, 0, <<>>)
               /\ UNCHANGED <<files, fs_clock, event_seq, event_queue, wnow,
                              pending_updates, cached_projects, handled,
                              running>>
               /\ UNCHANGED <<store_vars, sse_vars>>
               /\ WatcherBeside

\* the commit returns, lines 325 and 336, and the call runs on to its end
handle_commit ==
    /\ running
    /\ handling.pc = "commit"
    /\ handling.session = 0 => Len(sessions) < MaxSessions
    /\ sessions' = committed_sessions(handling)
    /\ now' = IF handling.session = 0 THEN now + 1 ELSE now
    /\ finish_handling(handling)

\* TranscriptWatcher.stop while the processing task is suspended inside
\* _handle_file_event: _processing_task.cancel() raises asyncio.CancelledError
\* at the await the task is suspended in.  CancelledError is a BaseException,
\* so the except Exception of _update_project_tokens (line 359) does not catch
\* it and the except asyncio.CancelledError of the loop (line 419) ends the
\* task.  A commit that is cancelled has reached the database or has not.
stop_cancels(committed) ==
    /\ running
    /\ clients = <<>>
    /\ ck_call.pc = "idle"
    /\ handling.pc /= "idle"
    /\ committed => /\ handling.pc = "commit"
                    /\ handling.session = 0 => Len(sessions) < MaxSessions
    /\ sessions' = IF committed THEN committed_sessions(handling) ELSE sessions
    /\ now' = IF committed /\ handling.session = 0 THEN now + 1 ELSE now
    /\ running' = FALSE
    /\ event_queue' = <<>>
    /\ pending_updates' = [p \in EventPaths |-> 0]
    /\ cached_projects' = <<>>
    /\ handled' = Append(handled,
           [event_type |-> handling.event.event_type,
            path |-> handling.event.path,
            timestamp |-> handling.event.timestamp, updated |-> FALSE])
    /\ handling' = NoHandling
    /\ res' = Result("stop", 0, handling.event.timestamp, "cancelled",
                     0, 0, <<>>)
    /\ UNCHANGED <<files, fs_clock, event_seq, wnow>>
    /\ UNCHANGED sse_vars
    /\ WatcherBeside

Faults == {"none", "llm", "commit"}
FoldFaults == {"none", "compress", "commit"}
CommitFaults == {"none", "commit"}
SpawnTasks == {"", "task"}

\* ------------------------------------------------------- specifications
\* the whole store
Next ==
    \/ \E t \in UserTasks, m \in MaxTokenArgs : create_session(t, m)
    \/ \E s \in SessionIds : get_session(s)
    \/ \E s \in SessionIds, t \in TokenArgs : update_tokens(s, t)
    \/ \E s \in SessionIds : complete_session(s)
    \/ \E s \in SessionIds : terminate_session(s)
    \/ \E s \in SessionIds : add_memory(s)
    \/ \E m \in MemoryIds : delete_memory(m)
    \/ \E s \in SessionIds : create_checkpoint(s, "manual", EmptyDict)
    \/ \E c \in CheckpointIds : restore_checkpoint(c)
    \/ \E s \in SessionIds, c \in CompressedTokens, f \in FoldFaults :
           execute_fold(s, c, f)
    \/ \E s \in SessionIds, r \in HandoffReasons, t \in SpawnTasks, f \in Faults :
           execute_spawn(s, r, t, f)
    \/ \E s \in SessionIds, t \in SpawnTasks, f \in CommitFaults :
           restore_from_parent(s, t, f)
    \/ \E s \in SessionIds : get_session_lineage(s)
    \/ \E c \in Subscribers : sse_events(c)
    \/ \E c \in Subscribers : event_generator_init(c)
    \/ \E c \in Subscribers : event_generator_next(c)
    \/ sse_tick
    \/ \E c \in Subscribers : wait_for_timeout(c)
    \/ \E c \in Subscribers : event_generator_ping(c)
    \/ \E c \in Subscribers : event_generator_cancel(c)
    \/ \E c \in Subscribers : sse_abandon(c)
    \/ \E failing \in SUBSET Range(clients) : emit_mcp_status(failing)
    \/ \E p \in Paths, content \in FileContents : fs_write(p, content)
    \/ \E p \in Paths : on_modified(p)
    \/ \E p \in Paths : fs_delete(p)
    \/ tick
    \/ process_event
    \/ start
    \/ stop
    \/ \E failing \in SUBSET Range(clients) : bc_begin(failing)
    \/ bc_put
    \/ bc_cleanup
    \/ \E u \in Usages, p \in Providers : should_fold(u, p)
    \/ append_line
    \/ report_transcript(<<>>)
    \/ \E c \in Contents, cat \in MemoryCategory, p \in MemoryPriority :
           Len(memory_rows) < MaxSearched /\ store_memory(c, cat, p, 0)
    \/ \E q \in Queries, k \in TopKs : search_index(q, k)
    \/ \E k \in KeepTops, p \in PreserveArgs : curate_memories(k, p)
    \/ \E t \in TargetReductions : smart_curate(t)
    \/ \E q \in Queries, k \in HybridTopKs, w \in Weights :
           \E v \in VectorRankings(memory_rows, k) : hybrid_search(q, k, w, v)
    \/ \E t \in EventTypes, p \in OtherEntries : fs_other(t, p)
    \/ handle_begin
    \/ handle_select
    \/ handle_commit
    \/ \E committed \in BOOLEAN : stop_cancels(committed)
    \/ clock_runs
    \/ process_event_store_fails
    \/ \E id \in McpIds, task \in McpTasks, max_tokens \in McpMaxTokens :
           save_session(id, "/project1", task, max_tokens)
    \/ \E id \in McpIds, status \in McpStatuses :
           update_session_status(id, status)
    \/ mcp_second
    \/ \E u \in SpawnUsages, t \in ProgressArgs, o \in RecentOutputs,
          e \in ErrorCounts : should_spawn(u, t, o, e)

Spec == Init /\ [][Next]_vars

\* the session lifecycle: token updates and terminal states
NextSession ==
    \/ \E t \in UserTasks, m \in MaxTokenArgs :
           Len(sessions) < MaxTrackedSessions /\ create_session(t, m)
    \/ \E s \in SessionIds, t \in TokenArgs : update_tokens(s, t)
    \/ \E s \in SessionIds : complete_session(s)
    \/ \E s \in SessionIds : terminate_session(s)

SpecSession == Init /\ [][NextSession]_vars

\* folds of sessions whose tokens change
NextFold ==
    \/ \E t \in UserTasks, m \in MaxTokenArgs :
           Len(sessions) < MaxTrackedSessions /\ create_session(t, m)
    \/ \E s \in SessionIds : update_tokens(s, 1)
    \/ \E s \in SessionIds, c \in CompressedTokens, f \in FoldFaults :
           execute_fold(s, c, f)

SpecFold == Init /\ [][NextFold]_vars

\* the spawn protocol and the lineage it builds
NextSpawn ==
    \/ \E t \in UserTasks, m \in MaxTokenArgs : create_session(t, m)
    \/ \E s \in SessionIds : update_tokens(s, 1)
    \/ \E s \in SessionIds, r \in HandoffReasons, t \in SpawnTasks, f \in Faults :
           execute_spawn(s, r, t, f)
    \/ \E s \in SessionIds, t \in SpawnTasks, f \in CommitFaults :
           restore_from_parent(s, t, f)
    \/ \E s \in SessionIds : get_session_lineage(s)

SpecSpawn == Init /\ [][NextSpawn]_vars

\* checkpoints of sessions whose tokens and memories change
NextCheckpoint ==
    \/ \E t \in UserTasks :
           Len(sessions) < MaxTrackedSessions /\ create_session(t, 0)
    \/ \E s \in SessionIds : update_tokens(s, 1)
    \/ \E s \in SessionIds : add_memory(s)
    \/ \E m \in MemoryIds : delete_memory(m)
    \/ \E s \in SessionIds : create_checkpoint(s, "manual", EmptyDict)

SpecCheckpoint == Init /\ [][NextCheckpoint]_vars

\* checkpoints restored after their session and its memories have changed
NextRestore ==
    \/ \E t \in UserTasks :
           Len(sessions) < MaxTrackedSessions /\ create_session(t, 0)
    \/ \E s \in SessionIds : update_tokens(s, 1)
    \/ \E s \in SessionIds : complete_session(s)
    \/ \E s \in SessionIds : add_memory(s)
    \/ \E m \in MemoryIds : delete_memory(m)
    \/ \E s \in SessionIds : create_checkpoint(s, "manual", EmptyDict)
    \/ \E c \in CheckpointIds : restore_checkpoint(c)

SpecRestore == Init /\ [][NextRestore]_vars

\* the subscribers of the event stream and the broadcasts they receive
NextSse ==
    \/ \E c \in Subscribers : sse_events(c)
    \/ \E c \in Subscribers : event_generator_init(c)
    \/ \E c \in Subscribers : event_generator_next(c)
    \/ sse_tick
    \/ \E c \in Subscribers : wait_for_timeout(c)
    \/ \E c \in Subscribers : event_generator_ping(c)
    \/ \E c \in Subscribers : event_generator_cancel(c)
    \/ \E c \in Subscribers : sse_abandon(c)
    \/ \E failing \in SUBSET Range(clients) : emit_mcp_status(failing)

SpecSse == Init /\ [][NextSse]_vars

\* the watcher: files written and deleted, their events processed, and one
\* subscriber of the status it broadcasts
NextWatcher ==
    \/ \E p \in Paths, content \in FileContents : fs_write(p, content)
    \/ \E p \in Paths : on_modified(p)
    \/ \E p \in Paths : fs_delete(p)
    \/ tick
    \/ process_event
    \/ sse_events(1)
    \/ event_generator_init(1)
    \/ event_generator_next(1)

SpecWatcher == Init /\ [][NextWatcher]_vars

\* a broadcast followed statement by statement beside subscribers that come
\* and go
NextBroadcast ==
    \/ \E c \in Subscribers : MayRun /\ sse_events(c)
    \/ \E c \in Subscribers : MayRun /\ event_generator_init(c)
    \/ \E c \in Subscribers : MayRun /\ event_generator_next(c)
    \/ \E c \in Subscribers : MayRun /\ event_generator_cancel(c)
    \/ \E c \in Subscribers : MayRun /\ sse_abandon(c)
    \/ \E failing \in SUBSET Range(clients) : bc_begin(failing)
    \/ bc_put
    \/ bc_cleanup

SpecBroadcast == Init /\ [][NextBroadcast]_vars

\* the fold decision for every provider and usage, one call after another
NextDecide ==
    \E u \in Usages, p \in Providers : should_fold(u, p)

SpecDecide == Init /\ [][NextDecide]_vars

\* the spawn decision for every combination of its arguments
NextAdvise ==
    \E u \in SpawnUsages, t \in ProgressArgs, o \in RecentOutputs,
       e \in ErrorCounts : should_spawn(u, t, o, e)

SpecAdvise == Init /\ [][NextAdvise]_vars

\* the watcher of a project directory that holds a transcript and entries
\* that are none
NextFilter ==
    \/ \E content \in FileContents : fs_write("C", content)
    \/ fs_delete("C")
    \/ \E t \in EventTypes, p \in OtherEntries : fs_other(t, p)
    \/ tick
    \/ process_event
    \/ sse_events(1)
    \/ event_generator_init(1)
    \/ event_generator_next(1)

SpecFilter == Init /\ [][NextFilter]_vars

\* memories of every priority and content, stored and searched
NextSearch ==
    \/ \E c \in Contents, p \in MemoryPriority :
           Len(memory_rows) < MaxSearched /\ store_memory(c, "other", p, 0)
    \/ \E q \in Queries, k \in TopKs : search_index(q, k)

SpecSearch == Init /\ [][NextSearch]_vars

\* memories that match the query or do not, ranked by both searches
NextHybrid ==
    \/ \E c \in {{}, {"alpha"}}, p \in {"high", "low"} :
           Len(memory_rows) < MaxRanked /\ store_memory(c, "other", p, 0)
    \/ \E k \in HybridTopKs, w \in Weights :
           \E v \in VectorRankings(memory_rows, k) :
               hybrid_search(<<"alpha">>, k, w, v)

SpecHybrid == Init /\ [][NextHybrid]_vars

\* memories stored, read and curated
NextCurate ==
    \/ \E kind \in CuratedKinds :
           /\ NewMemoryRowId <= MaxCurated
           /\ store_memory({}, kind.category, "normal", kind.access_count)
    \/ \E k \in KeepTops, p \in PreserveArgs : curate_memories(k, p)
    \/ \E t \in TargetReductions : smart_curate(t)

SpecCurate == Init /\ [][NextCurate]_vars

\* the watcher of transcripts that can be read and of some that cannot
NextUnreadable ==
    \/ \E p \in {"A", "B"}, content \in FileContents \cup UnreadableContents :
           fs_write(p, content)
    \/ \E p \in {"A", "B"} : fs_delete(p)
    \/ tick
    \/ process_event
    \/ sse_events(1)
    \/ event_generator_init(1)

SpecUnreadable == Init /\ [][NextUnreadable]_vars

\* the watcher stopped and started again, its handler followed await by await
NextStop ==
    \/ \E p \in {"A", "B"}, content \in FileContents : fs_write(p, content)
    \/ tick
    \/ process_event
    \/ handle_begin
    \/ handle_select
    \/ handle_commit
    \/ stop
    \/ \E committed \in BOOLEAN : stop_cancels(committed)
    \/ start

SpecStop == Init /\ [][NextStop]_vars

\* the watcher beside a database that may fail
NextBinding ==
    \/ \E p \in Paths, content \in FileContents : fs_write(p, content)
    \/ \E p \in Paths : fs_delete(p)
    \/ tick
    \/ process_event
    \/ process_event_store_fails

SpecBinding == Init /\ [][NextBinding]_vars

\* the MCP server's table of sessions
NextMcp ==
    \/ \E id \in McpIds, task \in McpTasks, max_tokens \in McpMaxTokens :
           save_session(id, "/project1", task, max_tokens)
    \/ \E id \in McpIds, status \in McpStatuses :
           update_session_status(id, status)
    \/ mcp_second

SpecMcp == Init /\ [][NextMcp]_vars

\* the running watcher and its throttle.  Every handled event broadcasts at
\* most once, so no more events are produced than broadcasts are counted.
NextThrottle ==
    \/ \E p \in {"A", "B"}, content \in FileContents :
           event_seq < MaxBroadcasts /\ fs_write(p, content)
    \/ event_seq < MaxBroadcasts /\ on_modified("A")
    \/ event_seq < MaxBroadcasts /\ fs_delete("A")
    \/ clock_runs
    \/ process_event

\* the processing task is scheduled as long as the watcher runs, and the
\* clock it reads goes on
SpecThrottle ==
    Init /\ [][NextThrottle]_vars
         /\ WF_vars(process_event) /\ WF_vars(clock_runs)

\* transcripts of every content read by the watcher
NextExtract ==
    \/ append_line
    \/ report_transcript(<<>>)

SpecExtract == Init /\ [][NextExtract]_vars

\* calls with the ids of sessions that exist and of sessions that do not
NextNotFound ==
    \/ \E t \in UserTasks :
           Len(sessions) < MaxCreatedSessions /\ create_session(t, 0)
    \/ \E s \in SessionIds : get_session(s)
    \/ \E s \in SessionIds : update_tokens(s, 1)
    \/ \E s \in SessionIds : complete_session(s)
    \/ \E s \in SessionIds : terminate_session(s)
    \/ \E s \in SessionIds : memory_seq < MaxStoredMemories /\ add_memory(s)
    \/ \E s \in SessionIds : create_checkpoint(s, "manual", EmptyDict)
    \/ \E s \in SessionIds : execute_fold(s, 2, "none")
    \/ \E s \in SessionIds, r \in HandoffReasons :
           execute_spawn(s, r, "", "none")

SpecNotFound == Init /\ [][NextNotFound]_vars

\* the watcher over restarts of the application: files change while it runs
\* and while it is down, and every start runs the initial sync
NextSync ==
    \/ \E p \in Paths, content \in FileContents : fs_write(p, content)
    \/ \E p \in Paths : fs_delete(p)
    \/ tick
    \/ process_event
    \/ start
    \/ stop

SpecSync == Init /\ [][NextSync]_vars

\* create_checkpoint running beside add_memory, delete_memory, update_tokens
NextConcurrent ==
    \/ \E t \in UserTasks :
           Len(sessions) < MaxTrackedSessions /\ create_session(t, 0)
    \/ \E s \in SessionIds : update_tokens(s, 1)
    \/ \E s \in SessionIds : add_memory(s)
    \/ \E m \in MemoryIds : delete_memory(m)
    \/ \E s \in SessionIds : ck_get_session(s)
    \/ ck_select_memories
    \/ ck_commit("manual", EmptyDict)

SpecConcurrent == Init /\ [][NextConcurrent]_vars

\* ----------------------------------------------------------------- claims
Terminal == {"completed", "terminated"}

\* C1: in every reachable state each session has
\* 0 <= current_tokens <= max_tokens
C1_TokensWithinMax ==
    \A s \in DOMAIN sessions :
        /\ 0 <= sessions[s].current_tokens
        /\ sessions[s].current_tokens <= sessions[s].max_tokens

\* C2: a session whose status is completed or terminated is never mutated
\* again: no step changes its status or its current_tokens, and no call that
\* targets it succeeds
C2_TerminalIsWriteOnce ==
    [][\A s \in DOMAIN sessions :
          sessions[s].status \in Terminal =>
              /\ sessions'[s].status = sessions[s].status
              /\ sessions'[s].current_tokens = sessions[s].current_tokens
              /\ (res'.sid = s /\ res'.op \in {"update_tokens", "complete_session",
                                               "terminate_session"})
                     => res'.outcome /= "ok"]_vars

\* C3: update_tokens(id, tokens) with tokens > max_tokens of an existing
\* session is rejected and leaves the session's current_tokens unchanged
C3_UpdateAboveMaxRejected ==
    [][(/\ res'.op = "update_tokens"
        /\ res'.sid \in DOMAIN sessions
        /\ res'.arg > sessions[res'.sid].max_tokens)
       => /\ res'.outcome /= "ok"
          /\ sessions'[res'.sid].current_tokens
                 = sessions[res'.sid].current_tokens]_vars

\* C4: a successful execute_spawn(parent) adds exactly one session, the
\* child, active with current_tokens 0 and the parent's max_tokens; exactly
\* one lineage row has the child as child_session_id, and it names the parent
\* and the checkpoint this spawn created; the parent is completed
C4_SpawnCreatesLinkedChild ==
    [][(res'.op = "execute_spawn" /\ res'.outcome = "ok") =>
         LET parent == res'.sid
             child == res'.new_sid
             ckpt == res'.new_cid
             links == {i \in DOMAIN lineage' :
                          lineage'[i].child_session_id = child}
         IN /\ child \notin DOMAIN sessions
            /\ DOMAIN sessions' = DOMAIN sessions \cup {child}
            /\ sessions'[child].status = "active"
            /\ sessions'[child].current_tokens = 0
            /\ sessions'[child].max_tokens = sessions[parent].max_tokens
            /\ Cardinality(links) = 1
            /\ \A i \in links : /\ lineage'[i].parent_session_id = parent
                                /\ lineage'[i].checkpoint_id = ckpt
            /\ DOMAIN checkpoints' \ DOMAIN checkpoints = {ckpt}
            /\ checkpoints'[ckpt].session_id = parent
            /\ sessions'[parent].status = "completed"]_vars

\* a spawn has succeeded from a parent that has a non-default max_tokens and
\* has consumed tokens
C4_Witness ==
    /\ res.op = "execute_spawn"
    /\ res.outcome = "ok"
    /\ sessions[res.sid].max_tokens /= DEFAULT_MAX_TOKENS
    /\ sessions[res.sid].current_tokens > 0
    /\ sessions[res.new_sid].max_tokens = sessions[res.sid].max_tokens

\* C5: execute_spawn is all-or-nothing: when the final commit (lineage row
\* and parent completion) fails, no checkpoint, child session or lineage row
\* of that spawn remains and the parent is unchanged
C5_SpawnAllOrNothing ==
    [][(res'.op = "execute_spawn" /\ res'.arg = "commit"
        /\ res'.outcome = "error") =>
          /\ checkpoints' = checkpoints
          /\ sessions' = sessions
          /\ lineage' = lineage]_vars

\* C6: each session is the child of at most one lineage row, and no lineage
\* row has parent_session_id equal to its child_session_id
C6_OneParentNoSelfLink ==
    /\ \A s \in DOMAIN sessions : Cardinality(ParentLinks(s)) <= 1
    /\ \A i \in DOMAIN lineage :
           lineage[i].parent_session_id /= lineage[i].child_session_id

\* lineage rows written by execute_spawn and by restore_from_parent coexist
C6_Witness ==
    \E i, j \in DOMAIN lineage :
        /\ lineage[i].handoff_reason = "5-hour boundary reset"
        /\ lineage[j].handoff_reason \in HandoffReasons

\* s is a root-first chain of parent links that ends at session_id
IsLineageOf(s, session_id) ==
    /\ Len(s) >= 1
    /\ s[Len(s)] = session_id
    /\ ParentLinks(s[1]) = {}
    /\ \A k \in 1 .. Len(s) - 1 :
           \E i \in DOMAIN lineage :
               /\ lineage[i].parent_session_id = s[k]
               /\ lineage[i].child_session_id = s[k + 1]

\* C7: get_session_lineage(s) terminates and returns the chain of parent
\* links from the root ancestor down to s, root first and s last; for a
\* session without a lineage row that is s alone
C7_LineageRootFirst ==
    (res.op = "get_session_lineage" /\ res.sid \in DOMAIN sessions) =>
        /\ res.outcome = "ok"
        /\ IsLineageOf(res.ret, res.sid)

\* the lineage of the last session of a chain of two spawns has been read
C7_Witness ==
    /\ res.op = "get_session_lineage"
    /\ res.outcome = "ok"
    /\ Len(res.ret) = 3

\* C8: after a successful execute_fold(s, trajectory) s.current_tokens is
\* the compressed_tokens of the compression, and exactly one new checkpoint
\* of s exists, whose persisted metadata carries the compression result
C8_FoldPersistsCompression ==
    [][(res'.op = "execute_fold" /\ res'.outcome = "ok") =>
          /\ sessions'[res'.sid].current_tokens = res'.arg
          /\ DOMAIN checkpoints' \ DOMAIN checkpoints = {res'.new_cid}
          /\ checkpoints'[res'.new_cid].session_id = res'.sid
          /\ checkpoints'[res'.new_cid].extra_data = FoldMetadata]_vars

C10_CheckpointIsOneInstant ==
    [][ck_call.pc = "commit" /\ ck_call'.pc = "idle" =>
          \E v \in ck_views :
              /\ checkpoints'[res'.new_cid].state = v.state
              /\ checkpoints'[res'.new_cid].memories_snapshot = v.memory_ids]_vars

\* C11: whatever is done to a session after create_checkpoint made c,
\* restore_checkpoint(c) returns as state the session's task_description,
\* current_tokens, max_tokens and status as they were when c was created, and
\* restore_checkpoint changes no session, memory, checkpoint or lineage row.
C11_RestoreReturnsStateAtCreation ==
    [][res'.op = "restore_checkpoint" =>
         /\ UNCHANGED <<sessions, memories, memory_seq, checkpoints, lineage>>
         /\ res'.outcome = "ok" => res'.ret.state = ck_origin[res'.arg]]_vars

\* a checkpoint is restored after its session has changed
C11_Witness ==
    /\ res.op = "restore_checkpoint"
    /\ res.outcome = "ok"
    /\ session_state(sessions[res.sid]).current_tokens /= ck_origin[res.arg].current_tokens
    /\ session_state(sessions[res.sid]).status /= ck_origin[res.arg].status

\* C12: deleting a memory that a checkpoint's memories_snapshot lists leaves
\* every checkpoint row unchanged, and restore_checkpoint on such a checkpoint
\* still succeeds and returns exactly the snapshot memories that still exist.
C12_DeletedMemoryKeepsCheckpoint ==
    [][/\ (res'.op = "delete_memory" /\ res'.outcome = "ok")
            => checkpoints' = checkpoints
       /\ (res'.op = "restore_checkpoint" /\ res'.arg \in DOMAIN checkpoints)
            => /\ res'.outcome = "ok"
               /\ \A m \in MemoryIds :
                      m \in res'.ret.memories <=>
                         /\ m \in checkpoints[res'.arg].memories_snapshot
                         /\ m \in DOMAIN memories']_vars

\* a checkpoint is restored after one memory of its snapshot was deleted and
\* while another still exists
C12_Witness ==
    /\ res.op = "restore_checkpoint"
    /\ res.outcome = "ok"
    /\ checkpoints[res.arg].memories_snapshot \ DOMAIN memories /= {}
    /\ res.ret.memories /= {}

\* C13: when during a Broadcast the put on one subscriber's queue fails, the
\* Broadcast still completes, that subscriber is no longer in the subscriber
\* list when the Broadcast ends, and every other subscriber's queue has
\* received the message.
C13_FailedSubscriberDropped ==
    [][(res'.op = "emit_mcp_status" /\ bcast_seq' = bcast_seq + 1) =>
         /\ \A c \in res'.arg : c \notin Range(clients')
         /\ \A c \in Range(clients) \ res'.arg :
                /\ c \in Range(clients')
                /\ Len(queues'[c]) = Len(queues[c]) + 1
                /\ queues'[c][Len(queues'[c])].ts = bcast_seq'
                /\ queues'[c][Len(queues'[c])].event = "mcp:status"]_vars

\* a broadcast in which one subscriber's put failed and another subscriber
\* received the message
C13_Witness ==
    /\ res.op = "emit_mcp_status"
    /\ res.arg /= {}
    /\ \E c \in Range(clients) :
          /\ queues[c] /= <<>>
          /\ queues[c][Len(queues[c])].ts = bcast_seq

\* C14: the number of undelivered messages in a subscriber's queue never
\* exceeds a fixed bound, however many broadcasts are made; a subscriber whose
\* queue would exceed it is dropped instead.  Stated for the bound
\* MaxBroadcasts - 1: no queue ever holds every broadcast made.
C14_QueueDepthBounded ==
    \A c \in Subscribers : Len(queues[c]) < MaxBroadcasts

BroadcastTs(messages) ==
    LET b == SelectSeq(messages, LAMBDA m : m.event \notin {"init", "ping"})
    IN [i \in DOMAIN b |-> b[i].ts]

\* C15: the first event a subscriber emits is init, and the broadcast messages
\* it emits afterwards are the messages put on its queue, in the order they
\* were put, none lost and none twice, the ones put between the queue's
\* registration and the emission of init included.
C15_InitFirstThenQueueOrder ==
    \A c \in Subscribers :
        /\ emitted[c] /= <<>> => emitted[c][1].event = "init"
        /\ \A i \in 2 .. Len(emitted[c]) : emitted[c][i].event /= "init"
        /\ BroadcastTs(emitted[c]) \o BroadcastTs(queues[c])
               = BroadcastTs(appended[c])

\* a subscriber has emitted init, then a message broadcast before init was
\* emitted, then a message broadcast after it
C15_Witness ==
    \E c \in Subscribers :
        /\ Len(emitted[c]) >= 3
        /\ emitted[c][2].event = "mcp:status"
        /\ emitted[c][2].ts <= emitted[c][1].ts
        /\ emitted[c][3].event = "mcp:status"
        /\ emitted[c][3].ts > emitted[c][1].ts

\* C16: two file events for the same transcript path are handled by
\* _handle_file_event in the order in which they were produced, also when the
\* throttle has deferred one or both of them.
C16_SamePathEventsInOrder ==
    \A i \in DOMAIN handled : \A j \in DOMAIN handled :
        (i < j /\ handled[i].path = handled[j].path)
            => handled[i].timestamp < handled[j].timestamp

StatusPayloads(c) ==
    {m \in Range(emitted[c]) \cup Range(appended[c]) :
        m.event \in {"init", "update"}}

\* C17: whatever the watcher processes for transcripts that share a (source,
\* project), every init or update payload sent to a subscriber holds at most
\* one project row for that (source, project).
C17_OneRowPerProject ==
    \A c \in Subscribers : \A m \in StatusPayloads(c) :
        \A i \in DOMAIN m.data.projects : \A j \in DOMAIN m.data.projects :
            (/\ m.data.projects[i].source = m.data.projects[j].source
             /\ m.data.projects[i].project = m.data.projects[j].project)
                => i = j

\* a subscriber was sent an update for each of the two transcripts of one
\* project, both of which exist
C17_Witness ==
    /\ files["A"].exists
    /\ files["B"].exists
    /\ \E m1 \in StatusPayloads(1) : \E m2 \in StatusPayloads(1) :
          /\ \E i \in DOMAIN m1.data.projects :
                m1.data.projects[i].transcriptPath = "A"
          /\ \E i \in DOMAIN m2.data.projects :
                m2.data.projects[i].transcriptPath = "B"

\* the last call of _handle_file_event for the path stored its tokens
LastHandledUpdated(path) ==
    \E i \in DOMAIN handled :
        /\ handled[i].path = path
        /\ handled[i].updated
        /\ \A j \in DOMAIN handled : handled[j].path = path => j <= i

\* C18: once both transcripts of one (source, project) have been processed,
\* the one row exposed for the project carries the currentTokens and the
\* transcriptPath of the transcript with the higher token count, whichever
\* was processed first.
C18_HigherTokensWin ==
    (/\ event_queue = <<>>
     /\ files["A"].exists
     /\ files["B"].exists
     /\ LastHandledUpdated("A")
     /\ LastHandledUpdated("B")
     /\ transcript_tokens("A").tokens /= transcript_tokens("B").tokens)
    => LET higher == IF transcript_tokens("A").tokens > transcript_tokens("B").tokens
                     THEN "A" ELSE "B"
       IN \E i \in DOMAIN get_status.projects :
             /\ get_status.projects[i].project = "ralph"
             /\ get_status.projects[i].transcriptPath = higher
             /\ get_status.projects[i].currentTokens = transcript_tokens(higher).tokens

\* the project's binding names this path as its transcript
IsBoundTranscript(path) ==
    \E i \in DOMAIN cached_projects :
        /\ cached_projects[i].name = extract_project_info(path).project_name
        /\ cached_projects[i].transcript_path = path

\* C19: handling a deleted event marks the auto-detected session of the
\* (source, project) inactive and removes the project's binding if the deleted
\* file was the project's active transcript, and only then: for any other
\* transcript no session and no binding changes.
C19_DeletedActiveMarksInactive ==
    [][(/\ Len(handled') = Len(handled) + 1
        /\ handled'[Len(handled')].event_type = "deleted")
       => LET path == handled'[Len(handled')].path
              info == extract_project_info(path)
              session == auto_session(auto_task(info.source_name, info.project_name))
          IN IF IsBoundTranscript(path)
             THEN /\ session /= 0 => sessions'[session].status = "inactive"
                  /\ \A i \in DOMAIN cached_projects' :
                         cached_projects'[i].name /= info.project_name
             ELSE UNCHANGED <<sessions, cached_projects>>]_vars

NamesAndTokens(status) ==
    [i \in DOMAIN status.projects |->
        <<status.projects[i].source, status.projects[i].project,
          status.projects[i].currentTokens>>]

\* C20: processing an event for a transcript whose content has not changed
\* since it was last processed, so that the list of (name, currentTokens) is
\* the one of the previous broadcast, sends no update to the subscribers.
C20_UnchangedContentNoUpdate ==
    [][(/\ Len(handled') = Len(handled) + 1
        /\ handled'[Len(handled')].updated
        /\ cached_projects' = cached_projects
        /\ 1 \in Range(clients)
        /\ appended[1] /= <<>>
        /\ NamesAndTokens(appended[1][Len(appended[1])].data)
               = NamesAndTokens(get_status'))
       => appended'[1] = appended[1]]_vars

AutoTasks == {auto_task("claude", "ralph"), auto_task("claude", "other")}

\* the sessions of the table whose task_description is the given one
SessionsOfTask(rows, task) ==
    {i \in DOMAIN rows : rows[i].task_description = task}

\* C21: for every (source, project), whatever initial syncs and created or
\* modified events the watcher goes through, at most one session has the
\* task_description "Auto-detected: <source>:<project>": the first change that
\* reaches _update_project_tokens creates it with the transcript's tokens, and
\* every later one leaves that session in place and changes nothing of it but
\* current_tokens.
C21_OneAutoSessionPerProject ==
    [][/\ \A task \in AutoTasks :
              /\ Cardinality(SessionsOfTask(sessions', task)) <= 1
              /\ SessionsOfTask(sessions, task) \subseteq SessionsOfTask(sessions', task)
              /\ \A i \in SessionsOfTask(sessions, task) :
                     sessions'[i] = [sessions[i] EXCEPT
                                        !.current_tokens = sessions'[i].current_tokens]
       /\ (/\ Len(handled') = Len(handled) + 1
           /\ handled'[Len(handled')].updated)
          => LET path == handled'[Len(handled')].path
                 info == extract_project_info(path)
                 task == auto_task(info.source_name, info.project_name)
             IN /\ Cardinality(SessionsOfTask(sessions', task)) = 1
                /\ \A i \in SessionsOfTask(sessions', task) :
                       sessions'[i].current_tokens = transcript_tokens(path).tokens
       /\ res'.op = "start"
          => \A dir \in {"ralph", "other"} :
                 project_transcripts(dir) /= {}
                     => Cardinality(SessionsOfTask(sessions',
                                        auto_task("claude", dir))) = 1]_vars

\* an initial sync has run over two projects, one of which had its session
\* created by an event before the application was restarted
C21_Witness ==
    /\ res.op = "start"
    /\ \A task \in AutoTasks : SessionsOfTask(sessions, task) /= {}
    /\ \E i \in DOMAIN handled :
          /\ handled[i].updated
          /\ project_dir(handled[i].path) = "ralph"

\* C22: a connected subscriber to which nothing is delivered for 30 s emits a
\* ping: its generator never waits longer than 30 s without yielding, and
\* what it yields after a timeout is the ping.  Emitting the ping leaves the
\* messages waiting in the subscriber's queue as they are: none removed, none
\* put twice, their order kept.
C22_PingKeepsQueue ==
    [][\A c \in Subscribers :
          /\ sub_pc'[c] \in {"streaming", "timed_out"} => idle'[c] <= 3
          /\ (sub_pc[c] = "timed_out" /\ emitted'[c] /= emitted[c])
                 => /\ Len(emitted'[c]) = Len(emitted[c]) + 1
                    /\ emitted'[c][Len(emitted'[c])].event = "ping"
          /\ (res'.op = "event_generator_ping" /\ res'.arg = c)
                 => /\ queues'[c] = queues[c]
                    /\ appended'[c] = appended[c]
                    /\ SubSeq(emitted'[c], 1, Len(emitted[c])) = emitted[c]]_vars

\* a subscriber has emitted a ping while a message broadcast after the
\* timeout was waiting in its queue
C22_Witness ==
    /\ res.op = "event_generator_ping"
    /\ queues[res.arg] /= <<>>
    /\ emitted[res.arg][Len(emitted[res.arg])].event = "ping"

\* C23: once a subscriber's connection is cancelled or closed, at whatever
\* point after sse_events registered its queue, the queue is out of the
\* subscriber list when the next broadcast ends, and no later broadcast puts
\* a message on it.
C23_ClosedSubscriberRemoved ==
    [][bcast_seq' = bcast_seq + 1 =>
          \A c \in Subscribers :
              sub_pc[c] = "closed" => c \notin Range(clients')]_vars

\* the number of copies of the broadcast with the given ts put on the queue
Copies(messages, ts) ==
    Len(SelectSeq(messages, LAMBDA m : m.event = "mcp:status" /\ m.ts = ts))

\* C24: whatever subscribers register or unregister around a broadcast, the
\* broadcast comes to its end, and every subscriber that was in the list from
\* its first statement to its last, and whose put did not fail, has got the
\* message on its queue once: not missed, not twice.
C24_BroadcastReachesRegistered ==
    [][(bc_call.pc = "loop" /\ bc_call'.pc = "idle") =>
          \A c \in (bc_call.at_begin \cap Range(clients)) \ bc_call.failing :
              Copies(appended'[c], bc_call.ts) = 1]_vars

\* a broadcast has ended that two subscribers got, one of which registered
\* after an earlier broadcast, while the put on neither failed
C24_Witness ==
    /\ res.op = "bc_cleanup"
    /\ Len(clients) = 2
    /\ \E c, d \in Range(clients) :
          /\ Copies(appended[c], res.arg) = 1
          /\ Copies(appended[d], res.arg) = 1
          /\ Len(appended[c]) > Len(appended[d])

\* the thresholds of the specification's table, per provider, in the order
\* checkpoint, safety checkpoint, compress, spawn
TableRow(provider) ==
    IF provider = "glm" THEN <<50, 65, 75, 85>>
    ELSE IF provider = "google" THEN <<70, 80, 90, 97>>
    ELSE <<60, 75, 85, 95>>

\* the action and the urgency of the four columns of the table
TableAction == <<"checkpoint", "checkpoint", "compress", "spawn">>
TableUrgency == <<"medium", "high", "high", "critical">>

\* the number of the columns whose threshold the usage has reached
ColumnsReached(context_usage, provider) ==
    Cardinality({k \in 1 .. 4 : TableRow(provider)[k] <= context_usage})

\* C25: for each provider and usage, should_fold returns should_fold = true
\* with the action and the urgency of the greatest threshold of the provider's
\* row that the usage has reached, and should_fold = false, urgency low,
\* action continue when the usage is below the row's lowest threshold.
C25_FoldDecisionFollowsTable ==
    res.op = "should_fold" =>
        LET k == ColumnsReached(res.arg[1], res.arg[2])
        IN IF k = 0
           THEN /\ res.ret.should_fold = FALSE
                /\ res.ret.urgency = "low"
                /\ res.ret.recommended_action = "continue"
           ELSE /\ res.ret.should_fold = TRUE
                /\ res.ret.urgency = TableUrgency[k]
                /\ res.ret.recommended_action = TableAction[k]

\* should_fold(0.76, provider=glm) has answered compress
C25_Witness ==
    /\ res.op = "should_fold"
    /\ res.arg = <<76, "glm">>
    /\ res.ret.recommended_action = "compress"

UrgencyRank(urgency) ==
    CASE urgency = "low" -> 0
      [] urgency = "medium" -> 1
      [] urgency = "high" -> 2
      [] urgency = "critical" -> 3

\* C26: for a fixed provider should_fold is monotone: of two calls, the one
\* with the lower usage never gets the higher urgency, under
\* low < medium < high < critical.
C26_FoldUrgencyMonotone ==
    (/\ Len(decided) = 2
     /\ decided[1].provider = decided[2].provider
     /\ decided[1].context_usage <= decided[2].context_usage)
    => UrgencyRank(decided[1].urgency) <= UrgencyRank(decided[2].urgency)

\* two calls for one provider, the second with the higher usage and the
\* higher urgency
C26_Witness ==
    /\ Len(decided) = 2
    /\ decided[1].provider = decided[2].provider
    /\ decided[1].context_usage < decided[2].context_usage
    /\ decided[1].urgency = "high"
    /\ decided[2].urgency = "critical"

\* the last three of the outputs exist and are one and the same
LastThreeIdentical(outputs) ==
    /\ Len(outputs) >= 3
    /\ outputs[Len(outputs)] = outputs[Len(outputs) - 1]
    /\ outputs[Len(outputs)] = outputs[Len(outputs) - 2]

\* C27: should_spawn decides by the first rule that matches, in this order:
\* task_progress >= 90, no spawn; context_usage >= 0.90 and task_progress < 80,
\* spawn with reason context_critical preserving decisions, files, errors;
\* the last three recent outputs identical, spawn with reason loop_detected
\* preserving decisions, files; error_count > 5, spawn with reason
\* error_cascade preserving errors, decisions; otherwise no spawn.
C27_SpawnDecisionByFirstRule ==
    res.op = "should_spawn" =>
        LET a == res.arg
            r == res.ret
        IN IF a.task_progress >= 90
           THEN r.should_spawn = FALSE
           ELSE IF a.context_usage >= 90 /\ a.task_progress < 80
           THEN /\ r.should_spawn = TRUE
                /\ r.reason = "context_critical"
                /\ r.preserve_context = <<"decisions", "files", "errors">>
           ELSE IF LastThreeIdentical(a.recent_outputs)
           THEN /\ r.should_spawn = TRUE
                /\ r.reason = "loop_detected"
                /\ r.preserve_context = <<"decisions", "files">>
           ELSE IF a.error_count > 5
           THEN /\ r.should_spawn = TRUE
                /\ r.reason = "error_cascade"
                /\ r.preserve_context = <<"errors", "decisions">>
           ELSE r.should_spawn = FALSE

\* C28: when compress fails during execute_fold, the fold still completes
\* instead of passing the error on: a checkpoint of the session is created,
\* and the summary is the raw trajectory.
C28_FoldSurvivesCompressFailure ==
    [][(/\ res'.op = "execute_fold"
        /\ res'.sid \in DOMAIN sessions
        /\ res'.ret.fault = "compress")
       => /\ res'.outcome = "ok"
          /\ DOMAIN checkpoints' \ DOMAIN checkpoints = {res'.new_cid}
          /\ checkpoints'[res'.new_cid].session_id = res'.sid
          /\ res'.ret.summary = Trajectory]_vars

\* C29: when the generation of the handoff prompt fails during
\* execute_spawn, the spawn still completes: the child session, the lineage
\* row and the parent's completion all happen, and handoff_prompt is the
\* first 200 characters of the parent's task_description (here the whole of
\* it, every task_description being shorter).
C29_SpawnSurvivesPromptFailure ==
    [][(/\ res'.op = "execute_spawn"
        /\ res'.sid \in DOMAIN sessions
        /\ res'.arg = "llm")
       => /\ res'.outcome = "ok"
          /\ DOMAIN sessions' \ DOMAIN sessions = {res'.new_sid}
          /\ \E i \in DOMAIN lineage' \ DOMAIN lineage :
                 /\ lineage'[i].parent_session_id = res'.sid
                 /\ lineage'[i].child_session_id = res'.new_sid
          /\ sessions'[res'.sid].status = "completed"
          /\ res'.ret.handoff_prompt = sessions[res'.sid].task_description]_vars

NotFoundOps == {"update_tokens", "complete_session", "terminate_session",
                "create_checkpoint", "execute_fold", "execute_spawn"}

\* C30: update_tokens, complete_session, terminate_session,
\* create_checkpoint, execute_fold and execute_spawn called with the id of a
\* session that does not exist raise not-found and leave the store as it
\* was: no session, checkpoint, lineage row or memory is created or changed;
\* get_session on such an id returns no session.
C30_NotFoundChangesNothing ==
    [][/\ (res'.op \in NotFoundOps /\ res'.sid \notin DOMAIN sessions)
          => /\ res'.outcome = "not_found"
             /\ UNCHANGED <<sessions, memories, checkpoints, lineage>>
       /\ (res'.op = "get_session" /\ res'.sid \notin DOMAIN sessions)
          => /\ res'.ret = 0
             /\ UNCHANGED <<sessions, memories, checkpoints, lineage>>]_vars

\* a call for a session that does not exist has raised not-found while the
\* store holds sessions, a memory and a checkpoint
C30_Witness ==
    /\ res.op \in NotFoundOps
    /\ res.outcome = "not_found"
    /\ sessions /= <<>>
    /\ DOMAIN memories /= {}
    /\ checkpoints /= <<>>

\* the lines of a transcript that are assistant lines with a usage block
UsageLines(lines) ==
    {i \in DOMAIN lines : lines[i].type = "assistant" /\ lines[i].has_usage}

Last(S) == CHOOSE i \in S : \A j \in S : j <= i

InTail(lines) ==
    {i \in DOMAIN lines :
        file_size(SubSeq(lines, i, Len(lines))) <= 10240}

C32_OtherEntriesIgnored ==
    [][/\ res'.op = "fs_other" => event_queue' = event_queue
       /\ (/\ res'.op = "process_event"
           /\ event_queue /= <<>>
           /\ Head(event_queue).path \in OtherEntries)
          => UNCHANGED <<sessions, cached_projects, appended>>]_vars

\* the row of the memories table an item stands for
RowOf(item) ==
    memory_rows[CHOOSE i \in DOMAIN memory_rows : memory_rows[i].id = item.id]

\* a / b > c / d for the scores of two items of one search
ScoreAbove(s, t) == s.matches * t.of > t.matches * s.of

PriorityOrder(priority) ==
    CASE priority = "high" -> 1 [] priority = "normal" -> 2 [] priority = "low" -> 3

\* C33: search_index(session, query, top_k) returns at most top_k items,
\* ordered by descending keyword score, with ties broken by priority (high
\* before normal before low) and then by newest created_at first.
C33_SearchOrderedByScore ==
    res.op = "search_index" =>
        /\ Len(res.ret) <= res.arg.top_k
        /\ \A i, j \in DOMAIN res.ret :
               i < j =>
                  \/ ScoreAbove(res.ret[i].score, res.ret[j].score)
                  \/ /\ ~ScoreAbove(res.ret[j].score, res.ret[i].score)
                     /\ \/ PriorityOrder(res.ret[i].priority)
                               < PriorityOrder(res.ret[j].priority)
                        \/ /\ res.ret[i].priority = res.ret[j].priority
                           /\ RowOf(res.ret[i]).created_at
                                 >= RowOf(res.ret[j]).created_at

\* the categories a curation run protects
ProtectedIn(call) ==
    IF call.op = "curate_memories" /\ call.arg.preserve_categories /= {}
    THEN call.arg.preserve_categories
    ELSE {"decision", "error"}

\* C34: no curation run (curate_memories or smart_curate, for any keep_top
\* and any memory population) ever deletes a memory whose category is
\* protected (by default decision and error).
C34_ProtectedNeverDeleted ==
    [][res'.op \in {"curate_memories", "smart_curate"}
       => \A i \in DOMAIN memory_rows :
              memory_rows[i].category \in ProtectedIn(res')
              => \E j \in DOMAIN memory_rows' :
                     memory_rows'[j] = memory_rows[i]]_vars

\* the entries of memories ranked r by both searches, and by one of them only
InBoth(entries, r) ==
    {e \in entries : e.keyword_rank = r /\ e.vector_rank = r}
InOne(entries, r) ==
    {e \in entries : \/ e.keyword_rank = r /\ e.vector_rank = 0
                     \/ e.keyword_rank = 0 /\ e.vector_rank = r}

\* C35: in hybrid_search with keyword and vector weights both 0.5 (k = 60),
\* a memory that appears at rank r in both the keyword ranking and the
\* vector ranking gets a strictly higher combined score than any memory that
\* appears at rank r in only one of them, and the items are returned in the
\* order of their combined scores, the highest first; the result has at
\* most top_k items.  Two memories cannot hold rank r of one ranking in one
\* call, so the scores compared are those of a call and of the call before.
C35_BothRankingsScoreHigher ==
    res.op = "hybrid_search" =>
        /\ Len(res.ret.items) <= res.arg.top_k
        /\ \A i, j \in DOMAIN res.ret.items :
               i < j => res.ret.items[i].score >= res.ret.items[j].score
        /\ \A r \in 1 .. 2 * res.arg.top_k :
               \A a \in InBoth(res.ret.seen, r), b \in InOne(res.ret.seen, r) :
                   (a.weights = <<5, 5>> /\ b.weights = <<5, 5>>)
                   => a.score > b.score

\* a search with equal weights ranked a memory first in both rankings, and
\* the search before it, with equal weights too, ranked a memory first in
\* one ranking only
C35_Witness ==
    /\ res.op = "hybrid_search"
    /\ res.arg.weights = <<5, 5>>
    /\ res.ret.items /= <<>>
    /\ \E a \in InBoth(res.ret.seen, 1), b \in InOne(res.ret.seen, 1) :
           /\ a.weights = <<5, 5>>
           /\ b.weights = <<5, 5>>
           /\ a.score = res.ret.items[1].score

\* C36: if the transcript named by a created/modified event cannot be opened
\* or read, that event causes no session change, no binding change and no
\* update broadcast, and the processing loop goes on to handle later events.
C36_UnreadableTranscriptSkipped ==
    [][(/\ res'.op = "process_event"
        /\ res'.outcome /= "deferred"
        /\ Head(event_queue).event_type /= "deleted"
        /\ ~files[Head(event_queue).path].readable)
       => /\ UNCHANGED <<sessions, cached_projects, appended>>
          /\ running']_vars

\* C37: when stop() is called while an event has been dequeued and is being
\* handled, the handling runs to completion before the processing loop exits:
\* the session holds the event's token count, the cache entry has been
\* written and the update has been broadcast.
C37_StopLetsHandlingFinish ==
    [][(running /\ ~running' /\ handling.pc /= "idle")
       => /\ \E i \in DOMAIN sessions' :
                 /\ sessions'[i].task_description = handling_task(handling)
                 /\ sessions'[i].current_tokens = handling.tokens
          /\ handled' /= <<>>
          /\ handled'[Len(handled')].timestamp = handling.event.timestamp
          /\ handled'[Len(handled')].updated
          /\ bcast_seq' = bcast_seq + 1]_vars

\* the number of entries of a sequence of events that carry the timestamp
Count(events, timestamp) ==
    Cardinality({i \in DOMAIN events : events[i].timestamp = timestamp})

\* C38: while the watcher runs, every enqueued file event is eventually
\* handled exactly once: an event the throttle defers is neither dropped nor
\* handled twice, and it is handled once the window of its path has passed.
C38_EveryEventHandledOnce ==
    /\ [](\A k \in 1..event_seq :
              Count(event_queue, k) + Count(handled, k) = 1)
    /\ \A k \in 1..MaxEvents :
           (Count(event_queue, k) = 1) ~> (Count(handled, k) = 1)

\* three events of one path have been handled, the third handled one before
\* the second: the throttle had put that one back behind it
C38_Witness ==
    /\ Len(handled) = 3
    /\ event_queue = <<>>
    /\ handled[2].path = handled[3].path
    /\ handled[3].timestamp < handled[2].timestamp

\* the event the last turn of the loop passed to _handle_file_event
LastHandled == handled[Len(handled)]

\* the cache entry and the auto-detected session of the project of a
\* transcript hold the same current_tokens
BindingMatchesSession(path, cache, rows) ==
    LET info == extract_project_info(path)
        key == cache_key(info.source_name, info.project_name, path)
        session == auto_session_in(rows,
                       auto_task(info.source_name, info.project_name))
    IN /\ session /= 0
       /\ \E i \in DOMAIN cache :
              /\ cache[i].key = key
              /\ cache[i].current_tokens = rows[session].current_tokens

\* C39: right after the watcher has handled a created/modified event for the
\* active transcript of a project, the cache entry of the project and its
\* stored auto-detected session hold the same current_tokens; if the store
\* fails, neither the cache entry nor the session is changed and no update is
\* broadcast.
C39_BindingMatchesSession ==
    [][/\ (/\ res'.op = "process_event"
           /\ res'.outcome = "handled"
           /\ LastHandled'.updated)
          => BindingMatchesSession(LastHandled'.path, cached_projects',
                                   sessions')
       /\ (res'.op = "process_event" /\ res'.outcome = "store_failed")
          => UNCHANGED <<sessions, cached_projects, appended, bcast_seq>>]_vars

\* an event was handled whose transcript reports more tokens than the
\* maximum, after the handling of an event before it met a failing store
C39_Witness ==
    /\ res.op = "process_event"
    /\ res.outcome = "handled"
    /\ Len(handled) >= 2
    /\ LastHandled.updated
    /\ handled[Len(handled) - 1].event_type /= "deleted"
    /\ ~handled[Len(handled) - 1].updated
    /\ files[LastHandled.path].usage > MAX_CONTEXT_TOKENS
    /\ BindingMatchesSession(LastHandled.path, cached_projects, sessions)

\* the rows of mcp_sessions with the id, and the other rows
McpRows(rows, id) == {rows[i] : i \in {j \in DOMAIN rows : rows[j].id = id}}
McpOtherRows(rows, id) ==
    {rows[i] : i \in {j \in DOMAIN rows : rows[j].id /= id}}

\* C40: SessionDB.save_session called with an id that already exists updates
\* the row's task_description, max_tokens and last_accessed, preserves its
\* created_at, current_tokens and status, and leaves every other row of
\* mcp_sessions unchanged.
C40_SaveUpdatesInPlace ==
    [][(/\ res'.op = "save_session"
        /\ McpRows(mcp_sessions, res'.arg.session_id) /= {})
       => /\ McpOtherRows(mcp_sessions', res'.arg.session_id)
                 = McpOtherRows(mcp_sessions, res'.arg.session_id)
          /\ \A old \in McpRows(mcp_sessions, res'.arg.session_id) :
             \A new \in McpRows(mcp_sessions', res'.arg.session_id) :
                 /\ new.task_description = res'.arg.task_description
                 /\ new.max_tokens = res'.arg.max_tokens
                 /\ new.last_accessed = mcp_clock
                 /\ new.created_at = old.created_at
                 /\ new.current_tokens = old.current_tokens
                 /\ new.status = old.status]_vars

====
